---- MODULE Spec2Model ----
(***************************************************************************)
(* mini-sirus: the task-trigger engine.                                    *)
(*                                                                         *)
(* TriggerTaskUseCase.Execute (the variant with the synchronous risk gate) *)
(* together with the in-memory collaborators it is wired to in cmd/api:    *)
(* MemoryLock, TaskRepositoryMemory, TaskDetailRepositoryMemory,           *)
(* RiskCheckServiceMemory, GovaluateAdapter, and CreateTaskUseCase.        *)
(*                                                                         *)
(* Every action is one atomic step of the Go code: one call into a         *)
(* mutex-guarded collaborator, together with the goroutine-local           *)
(* computation that follows it up to the next such call.                   *)
(***************************************************************************)
EXTENDS Integers, Sequences, FiniteSets, TLC

VARIABLES
    now,          \* wall clock (time.Now()), in seconds
    ticks,        \* how often the clock has advanced (bounds the model)
    tasks,        \* TaskRepositoryMemory.tasks, as a sequence: tasks[k].ID = TaskIdGenBase + k
    details,      \* TaskDetailRepositoryMemory.details, in creation order
    locks,        \* MemoryLock.locks: key -> lockID, NoLock when the key is absent
    blacklist,    \* RiskCheckServiceMemory.blacklist: user -> reason, NoReason when absent
    completions,  \* RiskCheckServiceMemory.taskCompletions: user -> sequence of records
    behaviors,    \* RiskCheckServiceMemory.userBehaviors: user -> sequence of records
    userDevices,  \* RiskCheckServiceMemory.userDevices: user -> set of device ids
    deviceUsers,  \* RiskCheckServiceMemory.deviceUsers: device id -> set of users
    recorded,     \* number of RecordTaskCompletion calls of a behaviour (bounds the model)
    inv,          \* the Execute invocations: goroutine-local state of each
    observers,    \* TaskObserverRegistry.observers: name -> the observer stored under it
    regOrder,     \* the names of observers, in the order Register stored them
    lastReg,      \* the observer the latest call of Register was given
    notify,       \* a Notify call on the registry: its position and locals
    lockApi,      \* the callers of MemoryLock: the tokens they were given, who holds
                  \* each key, and the latest call with what it returned
    created       \* what the latest call of CreateTaskUseCase.Execute returned

vars == <<now, ticks, tasks, details, locks, blacklist, completions, behaviors,
          userDevices, deviceUsers, recorded, inv, observers, regOrder, lastReg,
          notify, lockApi, created>>

histVars == <<completions, behaviors, recorded>>
deviceVars == <<userDevices, deviceUsers>>
riskVars == <<blacklist, histVars, deviceVars>>
clockVars == <<now, ticks>>
obsVars == <<observers, regOrder, lastReg, notify>>

-----------------------------------------------------------------------------
(* Bounds of the model *)

NumProcs == 2      \* Execute invocations in one behaviour
MaxTasks == 2      \* tasks created in one behaviour
MaxTicks == 1      \* clock advances in one behaviour
MaxRecords == 11   \* RecordTaskCompletion calls in one behaviour
MaxTarget == 2     \* largest target of a created task
NumInstances == 2  \* observer objects that carry one name

(* Program constants *)

TaskIdGenBase == 1000        \* NewTaskRepositoryMemory: idGen
DetailIdGenBase == 2000      \* NewTaskDetailRepositoryMemory: idGen
TaskValidDays == 30          \* filterValidTasks: task.IsExpired(30)
SecondsPerDay == 86400       \* 24 * time.Hour
SecondsPerHour == 3600       \* time.Hour
SecondsPerMinute == 60       \* time.Minute
MaxRecentBehaviors == 10     \* CheckUserBehavior: recentCount > 10
RegularityWindow == 5        \* CheckUserBehavior: len(behaviors) >= 5
MaxTaskPerHour == 10         \* CheckTaskFrequency: taskCount >= 10
MaxTotalPerDay == 100        \* CheckTaskFrequency: totalCount >= 100
NewUserCompletions == 50     \* CheckTaskFrequency: len(completions) < 50
MaxNewUserPerDay == 20       \* CheckTaskFrequency: totalCount > 20
HistoryCap == 1000           \* RecordTaskCompletion: keep the last 1000
MaxUsersPerDevice == 5       \* CheckDeviceFingerprint: accountCount > 5
MaxDevicesPerUser == 10      \* CheckDeviceFingerprint: deviceCount > 10
MinLikeCount == 10           \* the literal 10 in the publish condition

-----------------------------------------------------------------------------
(* Values *)

Procs == 1 .. NumProcs
Users == {1, 2}

TaskTypePublishTimes == "publish_times"
TaskTypeShareTimes == "share_times"
TaskTypeLikeTimes == "like_times"
TaskTypeCommentTimes == "comment_times"
TaskTypeCheckin == "checkin"

TaskStatusPending == "pending"
TaskStatusDone == "done"
TaskDetailStatusDone == "detail_done"

Nil == <<>>             \* a nil pointer; Ptr(x) is a pointer to x
Ptr(x) == <<x>>
NoLock == <<>>          \* the key is not in the lock table
NoReason == ""
NoError == [kind |-> "none", msg |-> {}]

(* The condition expressions used by cmd/example and its tests *)
ExprIsToday == "IS_TODAY()"
ExprPublish == "WITH_ANY_TOPIC(tag_ids, required_tag_ids) && LIKE_COUNT_GTE(like_count, 10) && IS_AUDITED(is_audited)"

(* Conditions a task can be created with: CreateTask only refuses the empty *)
(* one.  ExprKeyword reads a parameter no event carries, and the name of the *)
(* parameter is 黑名单, written "blacklist" as in the messages below;        *)
(* ExprNumber evaluates to a number.                                         *)
ExprKeyword == "[blacklist] > 0"
ExprNumber == "user_id"

-----------------------------------------------------------------------------
(* Errors.  An error is its kind together with the keywords its message     *)
(* contains: isRiskCheckError decides by substring search on the message.   *)
(*   "risk_check_failed"  stands for  风控检查失败                            *)
(*   "blacklist"          stands for  黑名单                                  *)
(*   "behavior_anomaly"   stands for  用户行为异常                            *)
(*   "frequency_too_high" stands for  任务完成频率过高                        *)
(*   "device_anomaly"     stands for  设备指纹异常                            *)

Err(kind, msg) == [kind |-> kind, msg |-> msg]

ErrTaskModeRequired == Err("validation", {"task mode is required"})
ErrAcquireLock == Err("lock", {"acquire lock failed", "lock already exists for key"})
ErrBlacklisted == Err("blacklisted", {"blacklist"})
ErrTooManyActions == Err("behavior", {"behavior_anomaly", "too many actions in one minute"})
ErrTooRegular == Err("behavior", {"behavior_anomaly", "intervals too regular"})
ErrSameTaskTooOften == Err("frequency", {"frequency_too_high", "same task in one hour"})
ErrTooManyPerDay == Err("frequency", {"frequency_too_high", "tasks in 24 hours"})
ErrNewUserTooActive == Err("frequency", {"new user too active"})
ErrNoParameter == Err("evaluate", {"evaluate expression failed", "no parameter found"})
ErrNoParameterNamed(name) ==
    Err("evaluate", {"evaluate expression failed", "no parameter found", name})
ErrNotBool == Err("evaluate", {"expression result must be bool"})
ErrFunction(text) == Err("evaluate", {"evaluate expression failed", text})
ErrPanic == Err("panic", {"invalid memory address or nil pointer dereference"})

(* fmt.Errorf("<prefix>: %w", err): the message gains the prefix *)
Wrap(prefix, err) == Err(err.kind, err.msg \cup {prefix})

(* a classification that takes no error for a risk error *)
NeverRiskError(err) == FALSE

isRiskCheckError(err) ==
    /\ err # NoError
    /\ \/ "risk_check_failed" \in err.msg
       \/ "blacklist" \in err.msg
       \/ "behavior_anomaly" \in err.msg
       \/ "frequency_too_high" \in err.msg
       \/ "device_anomaly" \in err.msg

-----------------------------------------------------------------------------
(* Events (dto.TaskModeDTO) *)

Num(n) == [t |-> "num", v |-> n]
Bool(b) == [t |-> "bool", v |-> b]
Str(s) == [t |-> "string", v |-> s]
IdList(l) == [t |-> "idlist", v |-> l]

RequiredTagIDs == <<1001, 1002>>

CheckinEvents ==
    [kind : {"checkin"}, UserID : Users, Date : {"2024-01-01"}, ContentID : {0},
     TopicIDs : {<<>>}, LikeCount : {0}, IsAudited : {FALSE}]

PublishEvents ==
    [kind : {"publish"}, UserID : {1}, Date : {""}, ContentID : {999},
     TopicIDs : {<<1001, 1003>>, <<5>>}, LikeCount : {15}, IsAudited : {TRUE}]

Events == CheckinEvents \cup PublishEvents

GetTaskType(mode) ==
    IF mode.kind = "checkin" THEN TaskTypeCheckin ELSE TaskTypePublishTimes

GetUserID(mode) == mode.UserID

EmptyFlag == <<>>

GetUniqueFlag(mode) ==
    IF mode.kind = "checkin"
    THEN <<"checkin", mode.UserID, mode.Date>>
    ELSE <<"publish", mode.UserID, mode.ContentID>>

GetExpressionArguments(mode) ==
    IF mode.kind = "checkin"
    THEN [user_id |-> Num(mode.UserID), date |-> Str(mode.Date)]
    ELSE [user_id |-> Num(mode.UserID),
          content_id |-> Num(mode.ContentID),
          tag_ids |-> IdList(mode.TopicIDs),
          required_tag_ids |-> IdList(RequiredTagIDs),
          like_count |-> Num(mode.LikeCount),
          comment_count |-> Num(5),
          is_audited |-> Bool(mode.IsAudited),
          audit_status |-> Num(1)]

-----------------------------------------------------------------------------
(* The expression functions and the rule engine *)

Val(b) == [val |-> b, err |-> NoError]
Fail(e) == [val |-> FALSE, err |-> e]

withAnyTopicFunc(args) ==
    IF Len(args) < 2 THEN Fail(ErrFunction("WITH_ANY_TOPIC requires 2 arguments"))
    ELSE IF args[1].t # "idlist" THEN Fail(ErrFunction("first argument must be []uint64"))
    ELSE IF args[2].t # "idlist" THEN Fail(ErrFunction("second argument must be []uint64"))
    ELSE Val(\E c \in DOMAIN args[1].v : \E d \in DOMAIN args[2].v :
                 args[1].v[c] = args[2].v[d])

likeCountGteFunc(args) ==
    IF Len(args) < 2 THEN Fail(ErrFunction("LIKE_COUNT_GTE requires 2 arguments"))
    ELSE IF args[1].t # "num" THEN Fail(ErrFunction("first argument must be number"))
    ELSE IF args[2].t # "num" THEN Fail(ErrFunction("second argument must be number"))
    ELSE Val(args[1].v >= args[2].v)

isAuditedFunc(args) ==
    IF Len(args) < 1 THEN Fail(ErrFunction("IS_AUDITED requires 1 argument"))
    ELSE IF args[1].t # "bool" THEN Fail(ErrFunction("argument must be bool"))
    ELSE Val(args[1].v)

isTodayFunc(args) == Val(TRUE)

(* a && b as govaluate evaluates it: b is not evaluated when a fails or is false *)
AndThen(a, b) == IF a.err # NoError \/ ~a.val THEN a ELSE b

(* a function call whose arguments are parameters: a parameter the event    *)
(* does not carry is an evaluation error                                    *)
CallWith(names, args, result) ==
    IF \E k \in DOMAIN names : names[k] \notin DOMAIN args
    THEN Fail(ErrNoParameter)
    ELSE result

(* an Evaluate that fails on the empty expression *)
EvaluateEmptyFails(expr, args) ==
    IF expr = "" THEN Fail(Err("evaluate", {"parse expression failed"}))
    ELSE Val(TRUE)

Evaluate(expr, args) ==
    IF expr = "" THEN Val(TRUE)
    ELSE IF expr = ExprIsToday THEN isTodayFunc(<<>>)
    ELSE IF expr = ExprPublish THEN
        AndThen(
            CallWith(<<"tag_ids", "required_tag_ids">>, args,
                     withAnyTopicFunc(<<args.tag_ids, args.required_tag_ids>>)),
            AndThen(
                CallWith(<<"like_count">>, args,
                         likeCountGteFunc(<<args.like_count, Num(MinLikeCount)>>)),
                CallWith(<<"is_audited">>, args,
                         isAuditedFunc(<<args.is_audited>>))))
    ELSE IF expr = ExprKeyword THEN
        IF "blacklist" \in DOMAIN args
        THEN IF args.blacklist.t = "num" THEN Val(args.blacklist.v > 0)
             ELSE Fail(ErrFunction("cannot be used with the comparator"))
        ELSE Fail(ErrNoParameterNamed("blacklist"))
    ELSE IF expr = ExprNumber THEN
        IF "user_id" \in DOMAIN args THEN Fail(ErrNotBool)
        ELSE Fail(ErrNoParameterNamed("user_id"))
    ELSE Fail(Err("evaluate", {"parse expression failed"}))

-----------------------------------------------------------------------------
(* entity.ActUserTask *)

IsCompleted(t) == t.Status = TaskStatusDone
IsPending(t) == t.Status = TaskStatusPending
CanProgress(t) == IsPending(t) /\ t.Progress < t.Target

(* an UpdateProgress that counts without looking at the target *)
UpdateProgressUnguarded(t) == [t EXCEPT !.Progress = t.Progress + 1]

(* an UpdateProgress that starts a completed task again *)
UpdateProgressRestarts(t) ==
    IF t.Status = TaskStatusDone
    THEN [t EXCEPT !.Progress = 0, !.Status = TaskStatusPending]
    ELSE [t EXCEPT !.Progress = t.Progress + 1,
                   !.Status = IF t.Progress + 1 >= t.Target
                              THEN TaskStatusDone ELSE t.Status]

UpdateProgress(t) ==
    IF ~CanProgress(t) THEN t
    ELSE LET p == t.Progress + 1 IN
         [t EXCEPT !.Progress = p,
                   !.Status = IF p >= t.Target THEN TaskStatusDone ELSE t.Status]

IsValid(t) ==
    /\ t.ActivityID > 0
    /\ t.TaskID > 0
    /\ t.UserID > 0
    /\ t.Target > 0
    /\ t.TaskCondExpr # ""

IsExpired(t, validDays) == now - t.CreatedAt > validDays * SecondsPerDay

TaskTypeIsValid(tt) ==
    tt \in {TaskTypePublishTimes, TaskTypeShareTimes, TaskTypeLikeTimes,
            TaskTypeCommentTimes, TaskTypeCheckin}


-----------------------------------------------------------------------------
(* RiskCheckServiceMemory: the checks, as functions of the histories *)

Devices == {"d1"}

Ok == NoError

Range(s) == {s[k] : k \in DOMAIN s}

(* n^2 times the variance of the values, so that it stays an integer *)
SumOf(values) ==
    LET RECURSIVE S(_)
        S(k) == IF k = 0 THEN 0 ELSE S(k - 1) + values[k]
    IN S(Len(values))

SumSq(values) ==
    LET RECURSIVE S(_)
        S(k) == IF k = 0 THEN 0 ELSE S(k - 1) + values[k] * values[k]
    IN S(Len(values))

calculateVarianceTimesNN(values) ==
    IF Len(values) = 0 THEN 0
    ELSE Len(values) * SumSq(values) - SumOf(values) * SumOf(values)

(* variance < 0.1. Values of under a minute are taken as they are. Of the    *)
(* others, n values with one that lies n or more from the first have a       *)
(* variance of at least n / 2; otherwise they are taken relative to the      *)
(* first, which leaves the variance as it is and keeps the squares within    *)
(* the integers.                                                             *)
VarianceBelowTenth(values) ==
    IF \A a \in DOMAIN values : values[a] < SecondsPerMinute /\ values[a] >= 0
    THEN 10 * calculateVarianceTimesNN(values) < Len(values) * Len(values)
    ELSE IF \E a \in DOMAIN values : \/ values[a] - values[1] >= Len(values)
                                      \/ values[1] - values[a] >= Len(values)
    THEN FALSE
    ELSE 10 * calculateVarianceTimesNN([k \in DOMAIN values |-> values[k] - values[1]])
             < Len(values) * Len(values)

(* a behaviour check without the count of the last minute *)
CheckRegularityOnly(userID) ==
    LET bs == behaviors[userID]
        recent == SubSeq(bs, Len(bs) - RegularityWindow + 1, Len(bs))
        intervals == [k \in 1 .. (RegularityWindow - 1) |->
                          recent[k + 1].Timestamp - recent[k].Timestamp]
    IN  IF Len(bs) >= RegularityWindow /\ VarianceBelowTenth(intervals)
        THEN ErrTooRegular ELSE Ok

CheckUserBehavior(userID) ==
    LET bs == behaviors[userID]
        oneMinuteAgo == now - SecondsPerMinute
        recentCount == Cardinality({k \in DOMAIN bs : bs[k].Timestamp > oneMinuteAgo})
        recent == SubSeq(bs, Len(bs) - RegularityWindow + 1, Len(bs))
        intervals == [k \in 1 .. (RegularityWindow - 1) |->
                          recent[k + 1].Timestamp - recent[k].Timestamp]
    IN  IF Len(bs) = 0 THEN Ok
        ELSE IF recentCount > MaxRecentBehaviors THEN ErrTooManyActions
        ELSE IF Len(bs) >= RegularityWindow /\ Len(intervals) > 0
                /\ VarianceBelowTenth(intervals) THEN ErrTooRegular
        ELSE Ok

(* a frequency check whose hourly limit is exceeded only above the limit *)
CheckTaskFrequencyAboveLimit(userID, taskID) ==
    LET cs == completions[userID]
        taskCount == Cardinality({k \in DOMAIN cs :
                                     /\ cs[k].Timestamp > now - SecondsPerHour
                                     /\ cs[k].TaskID = taskID})
        totalCount == Cardinality({k \in DOMAIN cs :
                                      cs[k].Timestamp > now - SecondsPerDay})
    IN  IF Len(cs) = 0 THEN Ok
        ELSE IF taskCount > MaxTaskPerHour THEN ErrSameTaskTooOften
        ELSE IF totalCount > MaxTotalPerDay THEN ErrTooManyPerDay
        ELSE IF Len(cs) < NewUserCompletions /\ totalCount > MaxNewUserPerDay
             THEN ErrNewUserTooActive
        ELSE Ok

CheckTaskFrequency(userID, taskID) ==
    LET cs == completions[userID]
        oneHourAgo == now - SecondsPerHour
        oneDayAgo == now - SecondsPerDay
        taskCount == Cardinality({k \in DOMAIN cs : /\ cs[k].Timestamp > oneHourAgo
                                                    /\ cs[k].TaskID = taskID})
        totalCount == Cardinality({k \in DOMAIN cs : cs[k].Timestamp > oneDayAgo})
    IN  IF Len(cs) = 0 THEN Ok
        ELSE IF taskCount >= MaxTaskPerHour THEN ErrSameTaskTooOften
        ELSE IF totalCount >= MaxTotalPerDay THEN ErrTooManyPerDay
        ELSE IF Len(cs) < NewUserCompletions /\ totalCount > MaxNewUserPerDay
             THEN ErrNewUserTooActive
        ELSE Ok

(* a device check that passes when it is given no detail *)
CheckDeviceFingerprintNilSafe(userID, detail) ==
    IF detail = Nil THEN Ok
    ELSE LET deviceID == detail[1].UniqueFlag IN
         IF deviceID = EmptyFlag THEN Ok
         ELSE IF deviceID \in DOMAIN deviceUsers
                 /\ Cardinality(deviceUsers[deviceID]) > MaxUsersPerDevice
              THEN Err("device", {"device_anomaly", "too many accounts on one device"})
         ELSE IF Cardinality(userDevices[userID]) > MaxDevicesPerUser
              THEN Err("device", {"device_anomaly", "too many devices for one user"})
         ELSE Ok

(* detail.UniqueFlag is read before anything else: with a nil detail the     *)
(* call panics (nil pointer dereference)                                     *)
CheckDeviceFingerprint(userID, detail) ==
    IF detail = Nil THEN ErrPanic
    ELSE LET deviceID == detail[1].UniqueFlag IN
         IF deviceID = EmptyFlag THEN Ok
         ELSE IF deviceID \in DOMAIN deviceUsers
                 /\ Cardinality(deviceUsers[deviceID]) > MaxUsersPerDevice
              THEN Err("device", {"device_anomaly", "too many accounts on one device"})
         ELSE IF Cardinality(userDevices[userID]) > MaxDevicesPerUser
              THEN Err("device", {"device_anomaly", "too many devices for one user"})
         ELSE Ok

(* a blacklist lookup that finds nobody *)
NobodyBlacklisted(userID) == FALSE

IsUserBlacklisted(userID) == blacklist[userID] # NoReason

(* a cap that keeps the oldest n records *)
KeepFirst(h, n) == IF Len(h) > n THEN SubSeq(h, 1, n) ELSE h

KeepLast(h, n) == IF Len(h) > n THEN SubSeq(h, Len(h) - n + 1, Len(h)) ELSE h


-----------------------------------------------------------------------------
(* MemoryLock *)

EventTypes == {TaskTypeCheckin, TaskTypePublishTimes}
(* an event can carry the user id 0: Execute builds the key of any event *)
NoUser == 0
Keys == (Users \cup {NoUser}) \X EventTypes

(* a lock key that leaves the user out *)
LockKeyByType(userID, taskType) == <<1, taskType>>

LockKey(userID, taskType) == <<userID, taskType>>

HeldKeys(l) == {k \in DOMAIN l : l[k] # NoLock}

(* a Lock that grants the key whether or not it is held *)
LockUnchecked(l, key) ==
    LET lockID == <<key, Cardinality(HeldKeys(l)) + 1>> IN
    [ok |-> TRUE, lockID |-> lockID, locks |-> [l EXCEPT ![key] = lockID]]

(* a Lock that refuses a held key and takes it from its holder *)
LockFailsAndFrees(l, key) ==
    IF l[key] # NoLock
    THEN [ok |-> FALSE, lockID |-> NoLock, locks |-> [l EXCEPT ![key] = NoLock]]
    ELSE LET lockID == <<key, Cardinality(HeldKeys(l)) + 1>> IN
         [ok |-> TRUE, lockID |-> lockID, locks |-> [l EXCEPT ![key] = lockID]]

(* Lock(key, ttl): [ok, lockID, locks] *)
Lock(l, key) ==
    IF l[key] # NoLock
    THEN [ok |-> FALSE, lockID |-> NoLock, locks |-> l]
    ELSE LET lockID == <<key, Cardinality(HeldKeys(l)) + 1>> IN
         [ok |-> TRUE, lockID |-> lockID, locks |-> [l EXCEPT ![key] = lockID]]

(* an Unlock that frees the key whatever lockID it is given *)
UnlockAnyToken(l, key, lockID) ==
    IF l[key] = NoLock THEN [ok |-> FALSE, locks |-> l]
    ELSE [ok |-> TRUE, locks |-> [l EXCEPT ![key] = NoLock]]

(* Unlock(key, lockID): [ok, locks] *)
Unlock(l, key, lockID) ==
    IF l[key] = NoLock THEN [ok |-> FALSE, locks |-> l]
    ELSE IF l[key] # lockID THEN [ok |-> FALSE, locks |-> l]
    ELSE [ok |-> TRUE, locks |-> [l EXCEPT ![key] = NoLock]]

(* a lockID no Lock has returned *)
WrongToken == <<"wrong">>

LockIDs == {<<k, n>> : k \in Keys, n \in 1 .. Cardinality(Keys)} \cup {NoLock, WrongToken}

NoCall == [op |-> "none", caller |-> 0, key |-> <<>>, lockID |-> NoLock, ok |-> FALSE]

(* no caller has called the lock *)
NoLockCalls ==
    [tokens |-> [c \in Procs |-> [k \in Keys |-> NoLock]],
     holder |-> [k \in Keys |-> 0],
     last |-> NoCall]

-----------------------------------------------------------------------------
(* The invocations of TriggerTaskUseCase.Execute *)

(* an observer is its name (GetObserverName) and which object it is *)
NoObserver == [name |-> "", id |-> 0]

(* make(map[string]output.TaskObserver) *)
NoObservers == [n \in {} |-> 0]

(* a Notify that has not been called *)
NotifyIdle ==
    [pc |-> "idle", copy |-> <<>>, called |-> <<>>, result |-> NoError,
     registered |-> <<>>, objs |-> NoObservers]

(* CreateTaskUseCase.Execute has not been called *)
NoOutput == [task |-> Nil, err |-> NoError]

NilMode ==
    [kind |-> "nil", UserID |-> 0, Date |-> "", ContentID |-> 0,
     TopicIDs |-> <<>>, LikeCount |-> 0, IsAudited |-> FALSE]

IdleInv ==
    [pc |-> "idle", mode |-> NilMode, lockKey |-> <<>>, lockID |-> NoLock,
     listed |-> 0, validTasks |-> <<>>, idx |-> 0, lastError |-> NoError, result |-> NoError,
     riskErr |-> NoError, reason |-> NoReason, failed |-> <<>>, notified |-> <<>>]

Init ==
    /\ now = 0
    /\ ticks = 0
    /\ tasks = <<>>
    /\ details = <<>>
    /\ locks = [k \in Keys |-> NoLock]
    /\ blacklist = [u \in Users |-> NoReason]
    /\ completions = [u \in Users |-> <<>>]
    /\ behaviors = [u \in Users |-> <<>>]
    /\ userDevices = [u \in Users |-> {}]
    /\ deviceUsers = [d \in Devices |-> {}]
    /\ recorded = 0
    /\ inv = [i \in Procs |-> IdleInv]
    /\ observers = NoObservers
    /\ regOrder = <<>>
    /\ lastReg = NoObserver
    /\ lockApi = NoLockCalls
    /\ notify = NotifyIdle
    /\ created = NoOutput

(* a filter that keeps every listed task *)
filterNothing(ts) == ts

(* a filter that drops the completed tasks only *)
filterCompletedOnly(ts) == SelectSeq(ts, LAMBDA t : ~IsCompleted(t))

(* filterValidTasks *)
filterValidTasks(ts) ==
    SelectSeq(ts, LAMBDA t : ~IsCompleted(t) /\ ~IsExpired(t, TaskValidDays))

(* return from Execute: the deferred Unlock is what is left to run *)
Return(p, res) == [p EXCEPT !.pc = "unlock", !.result = res]

(* The loop of Execute from task k on, up to the first call into the risk    *)
(* service: processTask evaluates the condition; an evaluation error is      *)
(* kept as lastError and the loop goes on, unless isRiskCheckError takes it  *)
(* for a risk error; a condition that is not met is skipped; a met one       *)
(* enters performRiskCheck.  The field failed keeps, in order, the errors     *)
(* that processTask has returned to the loop.                                *)
RECURSIVE LoopForgetsError(_, _)
LoopForgetsError(p, k) ==
    IF k > Len(p.validTasks) THEN Return([p EXCEPT !.idx = k], p.lastError)
    ELSE LET r == Evaluate(p.validTasks[k].TaskCondExpr, GetExpressionArguments(p.mode))
             e == Wrap("evaluate expression failed", r.err)
         IN  IF r.err # NoError
             THEN IF isRiskCheckError(e)
                  THEN Return([p EXCEPT !.idx = k, !.lastError = e,
                                        !.failed = Append(@, e)], e)
                  ELSE LoopForgetsError([p EXCEPT !.lastError = e,
                                                  !.failed = Append(@, e)], k + 1)
             ELSE IF ~r.val THEN LoopForgetsError([p EXCEPT !.lastError = NoError], k + 1)
             ELSE [p EXCEPT !.idx = k, !.pc = "check_blacklist"]

(* a loop that takes every condition that evaluates for met *)
RECURSIVE LoopIgnoresCondition(_, _)
LoopIgnoresCondition(p, k) ==
    IF k > Len(p.validTasks) THEN Return([p EXCEPT !.idx = k], p.lastError)
    ELSE LET r == Evaluate(p.validTasks[k].TaskCondExpr, GetExpressionArguments(p.mode))
             e == Wrap("evaluate expression failed", r.err)
         IN  IF r.err # NoError
             THEN IF isRiskCheckError(e)
                  THEN Return([p EXCEPT !.idx = k, !.lastError = e,
                                        !.failed = Append(@, e)], e)
                  ELSE LoopIgnoresCondition([p EXCEPT !.lastError = e,
                                                      !.failed = Append(@, e)], k + 1)
             ELSE [p EXCEPT !.idx = k, !.pc = "check_blacklist"]

RECURSIVE Loop(_, _)
Loop(p, k) ==
    IF k > Len(p.validTasks) THEN Return([p EXCEPT !.idx = k], p.lastError)
    ELSE LET r == Evaluate(p.validTasks[k].TaskCondExpr, GetExpressionArguments(p.mode))
             e == Wrap("evaluate expression failed", r.err)
         IN  IF r.err # NoError
             THEN IF isRiskCheckError(e)
                  THEN Return([p EXCEPT !.idx = k, !.lastError = e,
                                        !.failed = Append(@, e)], e)
                  ELSE Loop([p EXCEPT !.lastError = e, !.failed = Append(@, e)], k + 1)
             ELSE IF ~r.val THEN Loop(p, k + 1)
             ELSE [p EXCEPT !.idx = k, !.pc = "check_blacklist"]

(* processTask returned the error e for task p.idx *)
TaskFailed(p, e) ==
    IF isRiskCheckError(e)
    THEN Return([p EXCEPT !.lastError = e, !.failed = Append(@, e)], e)
    ELSE Loop([p EXCEPT !.lastError = e, !.failed = Append(@, e)], p.idx + 1)

CurTask(p) == p.validTasks[p.idx]

(* Execute, lines 123-125 *)
ExecuteNilMode(i) ==
    /\ inv[i].pc = "idle"
    /\ inv' = [inv EXCEPT ![i] = [IdleInv EXCEPT !.pc = "done", !.result = ErrTaskModeRequired]]
    /\ UNCHANGED <<clockVars, tasks, details, locks, riskVars, obsVars, lockApi, created>>

(* Execute, lines 127-136: the lock is taken or the invocation fails *)
ExecuteLock(i, mode) ==
    /\ inv[i].pc = "idle"
    /\ LET key == LockKey(GetUserID(mode), GetTaskType(mode))
           r == Lock(locks, key)
       IN  /\ locks' = r.locks
           /\ inv' = [inv EXCEPT ![i] =
                  IF r.ok
                  THEN [IdleInv EXCEPT !.pc = "list", !.mode = mode, !.lockKey = key,
                                       !.lockID = r.lockID]
                  ELSE [IdleInv EXCEPT !.pc = "done", !.mode = mode,
                                 !.result = Wrap("acquire lock failed", ErrAcquireLock)]]
    /\ UNCHANGED <<clockVars, tasks, details, riskVars, obsVars, lockApi, created>>

(* the orders in which a Go map of the tasks ks can be iterated *)
Orders(ks) ==
    {s \in [1 .. Cardinality(ks) -> ks] : \A a, b \in DOMAIN s : a # b => s[a] # s[b]}

(* Execute, lines 140-161: ListByUserIDAndType, filterValidTasks, and the    *)
(* loop up to its first risk check                                           *)
ExecuteList(i) ==
    /\ inv[i].pc = "list"
    /\ LET p == inv[i]
           ks == {k \in DOMAIN tasks : /\ tasks[k].UserID = GetUserID(p.mode)
                                       /\ tasks[k].TaskType = GetTaskType(p.mode)}
       IN  \E order \in Orders(ks) :
               LET listed == [n \in DOMAIN order |-> tasks[order[n]]] IN
               inv' = [inv EXCEPT ![i] =
                   IF Len(listed) = 0 THEN Return(p, NoError)
                   ELSE Loop([p EXCEPT !.listed = Len(listed),
                                       !.validTasks = filterValidTasks(listed)], 1)]
    /\ UNCHANGED <<clockVars, tasks, details, locks, riskVars, obsVars, lockApi, created>>

-----------------------------------------------------------------------------
(* processTask from the risk gate on.  A step of an invocation reads and     *)
(* writes the stores through a record st of the invocation p and the stores. *)

St(i) ==
    [p |-> inv[i], details |-> details, tasks |-> tasks,
     completions |-> completions, behaviors |-> behaviors]

Apply(i, st) ==
    /\ inv' = [inv EXCEPT ![i] = st.p]
    /\ details' = st.details
    /\ tasks' = st.tasks
    /\ completions' = st.completions
    /\ behaviors' = st.behaviors

(* TaskDetailRepositoryMemory.Create *)
DetailCreate(ds, d) == Append(ds, [d EXCEPT !.ID = DetailIdGenBase + Len(ds) + 1])

(* TaskRepositoryMemory.Update: the stored task is replaced by the copy *)
TaskUpdate(ts, t) == [k \in DOMAIN ts |-> IF ts[k].ID = t.ID THEN t ELSE ts[k]]

(* RiskCheckServiceMemory.RecordTaskCompletion, on one history *)
Record(h, userID, taskID, timestamp) ==
    [h EXCEPT ![userID] =
        KeepLast(Append(@, [UserID |-> userID, TaskID |-> taskID, Timestamp |-> timestamp]),
                 HistoryCap)]

(* processTask, lines 309-343: the risk gate has passed.  The field notified *)
(* keeps the tasks for whose detail processTask has called Notify.           *)
Passed(st) ==
    LET p == st.p
        t == CurTask(p)
        detail == [ID |-> 0, TaskID |-> t.ID, UserID |-> t.UserID,
                   Status |-> TaskDetailStatusDone,
                   UniqueFlag |-> GetUniqueFlag(p.mode), RewardValue |-> 1,
                   CreatedAt |-> now]
    IN  [p |-> Loop([p EXCEPT !.notified = Append(@, t.ID)], p.idx + 1),
         details |-> DetailCreate(st.details, detail),
         tasks |-> TaskUpdate(st.tasks, UpdateProgress(t)),
         completions |-> Record(st.completions, t.UserID, t.ID, now),
         behaviors |-> Record(st.behaviors, t.UserID, t.ID, now)]

(* a processTask that goes on to complete the task whatever the risk gate   *)
(* has answered                                                              *)
RejectionIgnored(st, e) == Passed(st)

(* a processTask that records the completion before the risk gate answers   *)
RejectedAfterRecording(st, e) ==
    LET t == CurTask(st.p) IN
    [st EXCEPT !.p = TaskFailed(st.p, Wrap("risk_check_failed", e)),
               !.completions = Record(st.completions, t.UserID, t.ID, now),
               !.behaviors = Record(st.behaviors, t.UserID, t.ID, now)]

(* a processTask that notifies the observers of an attempt the risk gate     *)
(* has rejected                                                              *)
RejectedNotifies(st, e) ==
    [st EXCEPT !.p = TaskFailed([st.p EXCEPT !.notified = Append(@, CurTask(st.p).ID)],
                                Wrap("risk_check_failed", e))]

(* a processTask that stores the detail before the risk gate answers *)
RejectedAfterDetail(st, e) ==
    LET t == CurTask(st.p) IN
    [st EXCEPT !.p = TaskFailed(st.p, Wrap("risk_check_failed", e)),
               !.details = DetailCreate(st.details,
                               [ID |-> 0, TaskID |-> t.ID, UserID |-> t.UserID,
                                Status |-> TaskDetailStatusDone,
                                UniqueFlag |-> GetUniqueFlag(st.p.mode),
                                RewardValue |-> 1, CreatedAt |-> now])]

(* processTask, lines 303-306: performRiskCheck returned the error e *)
Rejected(st, e) == [st EXCEPT !.p = TaskFailed(st.p, Wrap("risk_check_failed", e))]

(* performRiskCheck, lines 349-355 *)
CheckBlacklist(i) ==
    /\ inv[i].pc = "check_blacklist"
    /\ Apply(i, IF IsUserBlacklisted(CurTask(inv[i]).UserID)
                THEN Rejected(St(i), ErrBlacklisted)
                ELSE [St(i) EXCEPT !.p.pc = "check_behavior"])
    /\ UNCHANGED <<clockVars, locks, blacklist, recorded, deviceVars, obsVars, lockApi, created>>

(* a performRiskCheck that goes on to its next check after a failed one *)
ToNextCheck(p, e, reason) ==
    [p EXCEPT !.pc = IF p.pc = "check_behavior" THEN "check_frequency"
                     ELSE "check_device"]

(* a check of performRiskCheck failed with e: AddToBlacklist(reason) is next *)
ToBlacklist(p, e, reason) ==
    [p EXCEPT !.pc = "add_blacklist", !.riskErr = e, !.reason = reason]

(* performRiskCheck, line 359 *)
CheckBehavior(i) ==
    /\ inv[i].pc = "check_behavior"
    /\ LET e == CheckUserBehavior(CurTask(inv[i]).UserID) IN
       inv' = [inv EXCEPT ![i] =
                  IF e # Ok THEN ToBlacklist(@, e, "behavior_anomaly")
                  ELSE [@ EXCEPT !.pc = "check_frequency"]]
    /\ UNCHANGED <<clockVars, tasks, details, locks, riskVars, obsVars, lockApi, created>>

(* performRiskCheck, line 367 *)
CheckFrequency(i) ==
    /\ inv[i].pc = "check_frequency"
    /\ LET e == CheckTaskFrequency(CurTask(inv[i]).UserID, CurTask(inv[i]).ID) IN
       inv' = [inv EXCEPT ![i] =
                  IF e # Ok THEN ToBlacklist(@, e, "frequency_too_high")
                  ELSE [@ EXCEPT !.pc = "check_device"]]
    /\ UNCHANGED <<clockVars, tasks, details, locks, riskVars, obsVars, lockApi, created>>

(* an AddToBlacklist that stores nothing *)
BlacklistUntouched(bl, userID, reason) == bl

(* an AddToBlacklist that, given no reason, takes the user off the list *)
BlacklistClearedWithoutReason(bl, userID, reason) == [bl EXCEPT ![userID] = reason]

(* RiskCheckServiceMemory.AddToBlacklist *)
AddToBlacklist(bl, userID, reason) ==
    IF reason = NoReason THEN bl ELSE [bl EXCEPT ![userID] = reason]

(* performRiskCheck, lines 362-363, 370-371, 379-380: the user is            *)
(* blacklisted and the error of the check is returned                        *)
AddBlacklist(i) ==
    /\ inv[i].pc = "add_blacklist"
    /\ blacklist' = AddToBlacklist(blacklist, CurTask(inv[i]).UserID, inv[i].reason)
    /\ Apply(i, Rejected([St(i) EXCEPT !.p.riskErr = NoError, !.p.reason = NoReason],
                         inv[i].riskErr))
    /\ UNCHANGED <<clockVars, locks, recorded, deviceVars, obsVars, lockApi, created>>

(* a panic that ends the invocation without running the deferred Unlock *)
PanicSkipsUnlock(p) == [p EXCEPT !.pc = "done", !.result = ErrPanic]

(* the panic of a nil dereference unwinds processTask and Execute; the       *)
(* deferred Unlock of Execute is what is left to run                         *)
Panic(p) == [p EXCEPT !.pc = "unlock", !.result = ErrPanic]

(* performRiskCheck, line 376: CheckDeviceFingerprint is called with a nil   *)
(* detail, whose UniqueFlag it reads first, so the call panics; had it       *)
(* returned nil, the rest of processTask (Passed) would run in this step     *)
CheckDevice(i) ==
    /\ inv[i].pc = "check_device"
    /\ LET e == CheckDeviceFingerprint(CurTask(inv[i]).UserID, Nil) IN
       Apply(i, IF e = ErrPanic THEN [St(i) EXCEPT !.p = Panic(@)]
                ELSE IF e # Ok
                     THEN [St(i) EXCEPT !.p = ToBlacklist(@, e, "device_anomaly")]
                ELSE Passed(St(i)))
    /\ UNCHANGED <<clockVars, locks, blacklist, recorded, deviceVars, obsVars, lockApi, created>>

(* Execute, line 137: the deferred Unlock, whose error is dropped *)
ExecuteUnlock(i) ==
    /\ inv[i].pc = "unlock"
    /\ locks' = Unlock(locks, inv[i].lockKey, inv[i].lockID).locks
    /\ inv' = [inv EXCEPT ![i] =
                  [IdleInv EXCEPT !.pc = "done", !.mode = inv[i].mode,
                                  !.result = inv[i].result]]
    /\ UNCHANGED <<clockVars, tasks, details, riskVars, obsVars, lockApi, created>>

-----------------------------------------------------------------------------
(* The other operations on the stores *)

TaskInput(userID, taskType, target, expr) ==
    [ActivityID |-> 1, TaskID |-> 1, UserID |-> userID, TaskType |-> taskType,
     Target |-> target, TaskCondExpr |-> expr]

TaskInputs ==
    { TaskInput(1, TaskTypeCheckin, 1, ExprIsToday),
      TaskInput(1, TaskTypePublishTimes, MaxTarget, ExprPublish),
      TaskInput(1, TaskTypeCheckin, 1, ExprPublish),
      TaskInput(1, TaskTypeCheckin, 0, ExprIsToday),
      TaskInput(1, TaskTypeCheckin, 1, "") }

(* CreateTaskUseCase.validateInput *)
validateInputAnyType(input) ==
    IF input.ActivityID <= 0 THEN Err("validation", {"activity_id is required"})
    ELSE IF input.TaskID <= 0 THEN Err("validation", {"task_id is required"})
    ELSE IF input.UserID <= 0 THEN Err("validation", {"user_id is required"})
    ELSE IF input.Target <= 0 THEN Err("validation", {"target must be greater than 0"})
    ELSE IF input.TaskCondExpr = "" THEN Err("validation", {"task_cond_expr is required"})
    ELSE NoError

validateInput(input) ==
    IF input.ActivityID <= 0 THEN Err("validation", {"activity_id is required"})
    ELSE IF input.TaskID <= 0 THEN Err("validation", {"task_id is required"})
    ELSE IF input.UserID <= 0 THEN Err("validation", {"user_id is required"})
    ELSE IF input.Target <= 0 THEN Err("validation", {"target must be greater than 0"})
    ELSE IF ~TaskTypeIsValid(input.TaskType) THEN Err("validation", {"invalid task type"})
    ELSE IF input.TaskCondExpr = "" THEN Err("validation", {"task_cond_expr is required"})
    ELSE NoError

(* (nil, err) and (toTaskOutput(task), nil) *)
Output(task, err) == [task |-> task, err |-> err]

(* TaskRepositoryMemory.Create *)
TaskCreate(ts, t) == Append(ts, [t EXCEPT !.ID = TaskIdGenBase + Len(ts) + 1])

(* CreateTaskUseCase.Execute *)
CreateTask(input) ==
    /\ Len(tasks) < MaxTasks
    /\ LET task == [ID |-> 0, ActivityID |-> input.ActivityID, TaskID |-> input.TaskID,
                    UserID |-> input.UserID, TaskType |-> input.TaskType,
                    Status |-> TaskStatusPending, Progress |-> 0,
                    Target |-> input.Target, TaskCondExpr |-> input.TaskCondExpr,
                    CreatedAt |-> now]
           stored == TaskCreate(tasks, task)
       IN  IF validateInput(input) # NoError
           THEN /\ tasks' = tasks
                /\ created' = Output(Nil, validateInput(input))
           ELSE IF ~IsValid(task)
           THEN /\ tasks' = tasks
                /\ created' = Output(Nil, Err("validation", {"invalid task entity"}))
           ELSE /\ tasks' = stored
                /\ created' = Output(Ptr(stored[Len(stored)]), NoError)
    /\ UNCHANGED <<clockVars, details, locks, riskVars, inv, obsVars, lockApi>>

(* TaskRepositoryMemory.Create, called on the repository: nothing is         *)
(* validated                                                                 *)
RepoCreate(input) ==
    /\ Len(tasks) < MaxTasks
    /\ tasks' = TaskCreate(tasks,
                    [ID |-> 0, ActivityID |-> input.ActivityID, TaskID |-> input.TaskID,
                     UserID |-> input.UserID, TaskType |-> input.TaskType,
                     Status |-> TaskStatusPending, Progress |-> 0,
                     Target |-> input.Target, TaskCondExpr |-> input.TaskCondExpr,
                     CreatedAt |-> now])
    /\ UNCHANGED <<clockVars, details, locks, riskVars, inv, obsVars, lockApi, created>>

TaskIDs == TaskIdGenBase + 1 .. TaskIdGenBase + MaxTasks

(* TaskRepositoryMemory.UpdateProgress *)
RepoUpdateProgress(taskID) ==
    /\ tasks' = [k \in DOMAIN tasks |->
                    IF tasks[k].ID = taskID THEN UpdateProgress(tasks[k]) ELSE tasks[k]]
    /\ UNCHANGED <<clockVars, details, locks, riskVars, inv, obsVars, lockApi, created>>

BlacklistReasons == {"manual", NoReason}

(* RiskCheckServiceMemory.AddToBlacklist, called on the service *)
ServiceAddToBlacklist(userID, reason) ==
    /\ blacklist' = AddToBlacklist(blacklist, userID, reason)
    /\ UNCHANGED <<clockVars, tasks, details, locks, histVars, deviceVars, inv, obsVars, lockApi, created>>

(* RiskCheckServiceMemory.RecordTaskCompletion, called on the service *)
RecordTaskCompletion(userID, taskID) ==
    /\ recorded < MaxRecords
    /\ recorded' = recorded + 1
    /\ completions' = Record(completions, userID, taskID, now)
    /\ behaviors' = Record(behaviors, userID, taskID, now)
    /\ UNCHANGED <<clockVars, tasks, details, locks, blacklist, deviceVars, inv, obsVars, lockApi, created>>

PastValidity == TaskValidDays * SecondsPerDay + 1

(* time passes *)
Tick(delta) ==
    /\ ticks < MaxTicks
    /\ ticks' = ticks + 1
    /\ now' = now + delta
    /\ UNCHANGED <<tasks, details, locks, riskVars, inv, obsVars, lockApi, created>>

-----------------------------------------------------------------------------
(* TaskObserverRegistry *)

CheckinReachObserver == "checkin_reach_observer"
RiskCheckObserver == "risk_check_observer"
NoName == ""

ObserverNames == {CheckinReachObserver, RiskCheckObserver}

ErrObserver(name) == Err("observer", {"observer failed", name})

Observers == [name : ObserverNames \cup {NoName}, id : 1 .. NumInstances]

(* a Register that stores the observer under its name whatever the map holds *)
RegisterOverwrites(observer) ==
    /\ lastReg' = observer
    /\ IF observer.name = NoName
       THEN UNCHANGED <<observers, regOrder, lockApi, created>>
       ELSE /\ observers' = [n \in DOMAIN observers \cup {observer.name} |->
                                IF n = observer.name THEN observer.id ELSE observers[n]]
            /\ regOrder' = IF observer.name \in DOMAIN observers THEN regOrder
                           ELSE Append(regOrder, observer.name)
    /\ UNCHANGED <<clockVars, tasks, details, locks, riskVars, inv, notify, lockApi, created>>

(* Register: an observer without a name, or with a name that is a key of the *)
(* map, is not stored                                                        *)
Register(observer) ==
    /\ lastReg' = observer
    /\ IF observer.name = NoName \/ observer.name \in DOMAIN observers
       THEN UNCHANGED <<observers, regOrder, lockApi, created>>
       ELSE /\ observers' = [n \in DOMAIN observers \cup {observer.name} |->
                                IF n = observer.name THEN observer.id ELSE observers[n]]
            /\ regOrder' = Append(regOrder, observer.name)
    /\ UNCHANGED <<clockVars, tasks, details, locks, riskVars, inv, notify, lockApi, created>>

(* Unregister: delete on the map *)
Unregister(observerName) ==
    /\ observers' = [n \in DOMAIN observers \ {observerName} |-> observers[n]]
    /\ regOrder' = SelectSeq(regOrder, LAMBDA n : n # observerName)
    /\ UNCHANGED <<clockVars, tasks, details, locks, riskVars, inv, notify, lastReg, lockApi, created>>

(* Notify, lines 140-145: under the read lock the observers are copied in   *)
(* the order in which the map is iterated                                    *)
NotifyCopy ==
    /\ notify.pc = "idle"
    /\ \E copy \in Orders(DOMAIN observers) :
           notify' = [pc |-> IF Len(copy) = 0 THEN "done" ELSE "call",
                      copy |-> copy, called |-> <<>>, result |-> NoError,
                      registered |-> regOrder, objs |-> observers]
    /\ UNCHANGED <<clockVars, tasks, details, locks, riskVars, inv, observers, regOrder,
                 lastReg, lockApi, created>>

(* a Notify that logs the error of an observer and goes on to the next one *)
AfterCallGoesOn(n, name, failed) ==
    [n EXCEPT !.called = Append(@, name),
              !.result = IF failed THEN ErrObserver(name) ELSE n.result,
              !.pc = IF Len(n.called) + 1 = Len(n.copy) THEN "done" ELSE "call"]

(* Notify, lines 148-156: the call of the observer name has returned *)
AfterCall(n, name, failed) ==
    IF failed
    THEN [n EXCEPT !.called = Append(@, name), !.result = ErrObserver(name),
                   !.pc = "done"]
    ELSE [n EXCEPT !.called = Append(@, name),
                   !.pc = IF Len(n.called) + 1 = Len(n.copy) THEN "done" ELSE "call"]

(* Notify, line 149: OnTaskDetailCreated of the next observer of the copy,   *)
(* which returns an error or nil                                             *)
NotifyCall ==
    /\ notify.pc = "call"
    /\ \E failed \in BOOLEAN :
           notify' = AfterCall(notify, notify.copy[Len(notify.called) + 1], failed)
    /\ UNCHANGED <<clockVars, tasks, details, locks, riskVars, inv, observers, regOrder,
                 lastReg, lockApi, created>>

(* Notify has returned to its caller *)
NotifyReturn ==
    /\ notify.pc = "done"
    /\ notify' = NotifyIdle
    /\ UNCHANGED <<clockVars, tasks, details, locks, riskVars, inv, observers, regOrder,
                 lastReg, lockApi, created>>

-----------------------------------------------------------------------------
(* Callers of the lock *)

(* a caller calls Lock(key, ttl) and keeps the lockID it is given *)
CallLock(c, key) ==
    /\ LET r == Lock(locks, key) IN
       /\ locks' = r.locks
       /\ lockApi' =
              [tokens |-> IF r.ok THEN [lockApi.tokens EXCEPT ![c][key] = r.lockID]
                         ELSE lockApi.tokens,
               holder |-> IF r.ok THEN [lockApi.holder EXCEPT ![key] = c]
                         ELSE lockApi.holder,
               last |-> [op |-> "Lock", caller |-> c, key |-> key,
                         lockID |-> r.lockID, ok |-> r.ok]]
    /\ UNCHANGED <<clockVars, tasks, details, riskVars, inv, obsVars, created>>

(* a caller calls Unlock(key, lockID), with the lockID it was last given    *)
(* for the key or with one that nobody was given                            *)
CallUnlock(c, key, lockID) ==
    /\ lockID \in {lockApi.tokens[c][key], WrongToken}
    /\ LET r == Unlock(locks, key, lockID) IN
       /\ locks' = r.locks
       /\ lockApi' =
              [lockApi EXCEPT
                  !.holder = IF r.ok THEN [@ EXCEPT ![key] = 0] ELSE @,
                  !.last = [op |-> "Unlock", caller |-> c, key |-> key,
                            lockID |-> lockID, ok |-> r.ok]]
    /\ UNCHANGED <<clockVars, tasks, details, riskVars, inv, obsVars, created>>

-----------------------------------------------------------------------------

(* performRiskCheck up to the device check *)
Gate(i) ==
    \/ CheckBlacklist(i)
    \/ CheckBehavior(i)
    \/ CheckFrequency(i)
    \/ CheckDevice(i)

Invocation(i) ==
    \/ ExecuteNilMode(i)
    \/ \E mode \in Events : ExecuteLock(i, mode)
    \/ ExecuteList(i)
    \/ Gate(i)
    \/ ExecuteUnlock(i)

(* Concurrent invocations over the task and blacklist stores.  No history is *)
(* recorded here, so the behaviour and frequency checks pass and the step    *)
(* AddBlacklist is never enabled.                                            *)
Next ==
    \/ \E i \in Procs : Invocation(i)
    \/ \E input \in TaskInputs : CreateTask(input)
    \/ \E taskID \in TaskIDs : RepoUpdateProgress(taskID)
    \/ \E reason \in BlacklistReasons : ServiceAddToBlacklist(1, reason)
    \/ Tick(PastValidity)

Spec == Init /\ [][Next]_vars

RiskEvents == {mode \in CheckinEvents : mode.UserID = 1}

RiskInputs == {TaskInput(1, TaskTypeCheckin, 1, ExprIsToday)}

(* The risk gate over recorded histories: completions are recorded on the    *)
(* service for the first task, seconds pass, and check-ins are triggered.    *)
NextRisk ==
    \/ \E i \in Procs :
          \/ \E mode \in RiskEvents : ExecuteLock(i, mode)
          \/ ExecuteList(i)
          \/ Gate(i)
          \/ AddBlacklist(i)
          \/ ExecuteUnlock(i)
    \/ \E input \in RiskInputs : CreateTask(input)
    \/ RecordTaskCompletion(1, TaskIdGenBase + 1)
    \/ Tick(1)

SpecRisk == Init /\ [][NextRisk]_vars

(* the steps of an invocation that holds the lock: none of them waits *)
Run(i) == ExecuteList(i) \/ Gate(i) \/ AddBlacklist(i) \/ ExecuteUnlock(i)

(* every goroutine that is running Execute is scheduled again *)
SpecRiskFair == SpecRisk /\ \A i \in Procs : WF_vars(Run(i))

ExprUnparsable == "IS_TODAY("

EvalInputs ==
    { TaskInput(1, TaskTypeCheckin, 1, ExprIsToday),
      TaskInput(1, TaskTypeCheckin, 1, ExprKeyword),
      TaskInput(1, TaskTypeCheckin, 1, ExprNumber),
      TaskInput(1, TaskTypeCheckin, 1, ExprUnparsable) }

(* Check-ins over batches whose conditions fail to evaluate *)
NextEval ==
    \/ \E i \in Procs :
          \/ \E mode \in RiskEvents : ExecuteLock(i, mode)
          \/ ExecuteList(i)
          \/ Gate(i)
          \/ ExecuteUnlock(i)
    \/ \E input \in EvalInputs : CreateTask(input)
    \/ \E reason \in BlacklistReasons : ServiceAddToBlacklist(1, reason)

SpecEval == Init /\ [][NextEval]_vars

(* The registry on its own: observers are registered and unregistered while *)
(* details are notified                                                      *)
NextObs ==
    \/ \E observer \in Observers : Register(observer)
    \/ \E name \in ObserverNames : Unregister(name)
    \/ NotifyCopy
    \/ NotifyCall
    \/ NotifyReturn

SpecObs == Init /\ [][NextObs]_vars

(* Check-ins while observers are registered: processTask calls Notify after *)
(* it has stored the detail and the progress                                 *)
NextNotify ==
    \/ \E observer \in Observers : Register(observer)
    \/ \E i \in Procs :
          \/ \E mode \in RiskEvents : ExecuteLock(i, mode)
          \/ ExecuteList(i)
          \/ Gate(i)
          \/ ExecuteUnlock(i)
    \/ \E input \in RiskInputs : CreateTask(input)

SpecNotify == Init /\ [][NextNotify]_vars

(* check-in events that carry no user id: CheckinEventDTO{UserID: 0} *)
NoUserEvents ==
    [kind : {"checkin"}, UserID : {NoUser}, Date : {"2024-01-01"}, ContentID : {0},
     TopicIDs : {<<>>}, LikeCount : {0}, IsAudited : {FALSE}]

(* Triggers without a task mode or without a user id, next to check-ins of  *)
(* user 1                                                                    *)
NextInvalid ==
    \/ \E i \in Procs :
          \/ ExecuteNilMode(i)
          \/ \E mode \in RiskEvents \cup NoUserEvents : ExecuteLock(i, mode)
          \/ ExecuteList(i)
          \/ Gate(i)
          \/ ExecuteUnlock(i)
    \/ \E input \in RiskInputs : CreateTask(input)

SpecInvalid == Init /\ [][NextInvalid]_vars

MatchInputs ==
    { TaskInput(1, TaskTypeCheckin, 1, ""),
      TaskInput(1, TaskTypePublishTimes, 1, ""),
      TaskInput(1, TaskTypePublishTimes, 1, ExprPublish) }

MatchEvents == {mode \in Events : mode.UserID = 1}

(* Triggers over tasks stored without a condition *)
NextMatch ==
    \/ \E i \in Procs :
          \/ \E mode \in MatchEvents : ExecuteLock(i, mode)
          \/ ExecuteList(i)
          \/ Gate(i)
          \/ ExecuteUnlock(i)
    \/ \E input \in MatchInputs : RepoCreate(input)

SpecMatch == Init /\ [][NextMatch]_vars

LockApiKeys == {LockKey(1, TaskTypeCheckin), LockKey(2, TaskTypeCheckin)}

(* Callers that lock and unlock two keys *)
NextLock ==
    \/ \E c \in Procs : \E key \in LockApiKeys : CallLock(c, key)
    \/ \E c \in Procs : \E key \in LockApiKeys : \E lockID \in LockIDs :
           CallUnlock(c, key, lockID)

SpecLock == Init /\ [][NextLock]_vars

-----------------------------------------------------------------------------
(* Properties *)

InFlight(i) == inv[i].pc \notin {"idle", "done"}

GatePcs == {"check_blacklist", "check_behavior", "check_frequency",
            "add_blacklist", "check_device"}

Steps(i) == inv'[i] # inv[i]

(* TaskDetailRepositoryMemory.ExistsByUniqueFlag *)
ExistsByUniqueFlag(ds, uniqueFlag) ==
    \E k \in DOMAIN ds : ds[k].UniqueFlag = uniqueFlag

(* the risk gate of invocation i is about to answer, or has answered, with   *)
(* something other than a pass                                               *)
RiskRejecting(i) ==
    LET userID == CurTask(inv[i]).UserID IN
    \/ inv[i].pc = "check_blacklist" /\ blacklist[userID] # NoReason
    \/ inv[i].pc = "check_behavior" /\ CheckUserBehavior(userID) # Ok
    \/ inv[i].pc = "check_frequency" /\ CheckTaskFrequency(userID, CurTask(inv[i]).ID) # Ok
    \/ inv[i].pc = "add_blacklist"
    \/ inv[i].pc = "check_device" /\ CheckDeviceFingerprint(userID, Nil) # Ok

(* C1: a step in which the risk gate turns a matched task down (the user is  *)
(* blacklisted, or the behaviour, frequency or device check does not pass)   *)
(* creates no task detail and leaves every stored task, its progress and     *)
(* status included, as it was.                                               *)
C1_RejectionWritesNothing ==
    [][\A i \in Procs :
          (inv[i].pc \in GatePcs /\ RiskRejecting(i) /\ Steps(i))
              => (details' = details /\ tasks' = tasks)]_vars

(* an invocation was turned down by the frequency check: its task is still   *)
(* pending at progress 0 and no detail exists                                *)
C1_Witness ==
    \E i \in Procs :
        /\ inv[i].pc = "done"
        /\ {"risk_check_failed", "frequency_too_high"} \subseteq inv[i].result.msg
        /\ details = <<>>
        /\ Len(tasks) >= 1 /\ tasks[1].Progress = 0 /\ tasks[1].Status = TaskStatusPending
        /\ blacklist[1] = "frequency_too_high"

(* C2: an invocation whose user is blacklisted creates no detail and         *)
(* advances no task in any of its steps (ExistsByUniqueFlag stays as it      *)
(* was), and when it has matched a pending task its blacklist check returns  *)
(* a risk error, which Execute returns unchanged.                            *)
C2_BlacklistedUserBlocked ==
    [][\A i \in Procs :
          (InFlight(i) /\ Steps(i) /\ blacklist[GetUserID(inv[i].mode)] # NoReason)
              => /\ details' = details
                 /\ tasks' = tasks
                 /\ ExistsByUniqueFlag(details', GetUniqueFlag(inv[i].mode))
                        = ExistsByUniqueFlag(details, GetUniqueFlag(inv[i].mode))
                 /\ inv[i].pc = "check_blacklist"
                        => /\ inv'[i].pc = "unlock"
                           /\ inv'[i].result # NoError
                           /\ "blacklist" \in inv'[i].result.msg
                 /\ inv[i].pc = "unlock" => inv'[i].result = inv[i].result]_vars

(* a user blacklisted on the service triggered a check-in that matched a     *)
(* pending task, and Execute returned the blacklist error                    *)
C2_Witness ==
    \E i \in Procs :
        /\ inv[i].pc = "done"
        /\ inv[i].mode # NilMode
        /\ blacklist[GetUserID(inv[i].mode)] = "manual"
        /\ {"risk_check_failed", "blacklist"} \subseteq inv[i].result.msg
        /\ ~ExistsByUniqueFlag(details, GetUniqueFlag(inv[i].mode))
        /\ \E k \in DOMAIN tasks : tasks[k].Progress = 0 /\ tasks[k].Status = TaskStatusPending

(* C3: two invocations that are both between the acquisition and the        *)
(* release of the lock never have the same (userID, taskType) key, and the   *)
(* lock table names the invocation that holds each key.                      *)
C3_MutualExclusion ==
    \A i, j \in Procs :
        (i # j /\ InFlight(i) /\ InFlight(j))
            => /\ inv[i].lockKey # inv[j].lockKey
               /\ locks[inv[i].lockKey] = inv[i].lockID
               /\ locks[inv[j].lockKey] = inv[j].lockID

(* two invocations hold the locks of two different keys at once *)
C3_Witness ==
    /\ InFlight(1) /\ InFlight(2)
    /\ inv[1].lockKey # inv[2].lockKey
    /\ inv[1].pc \in GatePcs /\ inv[2].pc \in GatePcs

KeyOf(mode) == LockKey(GetUserID(mode), GetTaskType(mode))

LockHeldIffInFlight ==
    \A k \in Keys :
        locks[k] # NoLock
            <=> \E i \in Procs : InFlight(i) /\ inv[i].lockKey = k /\ inv[i].lockID = locks[k]

(* C5: a key is held exactly while the invocation that locked it is in       *)
(* flight, so with no invocation in flight no key is held and Lock succeeds  *)
(* on every key; and every invocation in flight ends, on a panic too, its    *)
(* deferred Unlock having run.                                               *)
C5_LockAlwaysReleased ==
    /\ [](LockHeldIffInFlight
           /\ ((\A i \in Procs : ~InFlight(i)) => \A k \in Keys : locks[k] = NoLock))
    /\ \A i \in Procs : InFlight(i) ~> inv[i].pc = "done"

(* an invocation has panicked in the device check, has ended, and no key is  *)
(* held                                                                      *)
C5_Witness ==
    /\ \E i \in Procs : inv[i].pc = "done" /\ inv[i].result = ErrPanic
    /\ \A i \in Procs : ~InFlight(i)
    /\ \A k \in Keys : locks[k] = NoLock

(* C6: every stored task, all of them created by CreateTaskUseCase, has      *)
(* 0 <= progress <= target, and its status is Done exactly when its progress *)
(* has reached its target.                                                   *)
C6_ProgressWithinTarget ==
    \A k \in DOMAIN tasks :
        /\ 0 <= tasks[k].Progress
        /\ tasks[k].Progress <= tasks[k].Target
        /\ tasks[k].Status = TaskStatusDone <=> tasks[k].Progress >= tasks[k].Target

(* a task of target MaxTarget has been advanced to its target and is Done *)
C6_Witness ==
    \E k \in DOMAIN tasks :
        /\ tasks[k].Target = MaxTarget
        /\ tasks[k].Progress = MaxTarget
        /\ tasks[k].Status = TaskStatusDone

(* C7: in every step the progress of every stored task stays or grows, and   *)
(* a task that is Done stays Done.                                           *)
C7_ProgressMonotonic ==
    [][\A k \in DOMAIN tasks :
          /\ k \in DOMAIN tasks'
          /\ tasks'[k].ID = tasks[k].ID
          /\ tasks'[k].Progress >= tasks[k].Progress
          /\ tasks[k].Status = TaskStatusDone => tasks'[k].Status = TaskStatusDone]_vars

(* a Done task and a task advanced part of the way are stored while an       *)
(* invocation triggered after that is in flight                              *)
C7_Witness ==
    /\ \E k \in DOMAIN tasks : tasks[k].Status = TaskStatusDone
    /\ \E k \in DOMAIN tasks :
           /\ tasks[k].Status = TaskStatusPending
           /\ tasks[k].Progress >= 1
    /\ \E i \in Procs : inv[i].pc = "unlock"

(* C8: a task that is Done when an invocation lists its tasks is filtered    *)
(* out before any evaluation: it is no entry of validTasks, so the           *)
(* invocation neither evaluates it nor runs the risk gate on it, and no step *)
(* of an invocation writes a stored task that is Done, creates a detail for  *)
(* it or records a completion of it.                                         *)
C8_DoneTaskUntouched ==
    /\ [](\A i \in Procs : \A k \in DOMAIN inv[i].validTasks :
              inv[i].validTasks[k].Status # TaskStatusDone)
    /\ [][\A i \in Procs : \A k \in DOMAIN tasks :
             (Steps(i) /\ tasks[k].Status = TaskStatusDone)
                 => /\ tasks'[k] = tasks[k]
                    /\ \A d \in DOMAIN details' \ DOMAIN details :
                           details'[d].TaskID # tasks[k].ID
                    /\ completions' = completions]_vars

(* an invocation listed one task at time 0, a Done one, kept none, and is    *)
(* returning nil                                                             *)
C8_Witness ==
    \E i \in Procs :
        /\ inv[i].pc = "unlock"
        /\ inv[i].listed = 1
        /\ inv[i].validTasks = <<>>
        /\ inv[i].result = NoError
        /\ now = 0
        /\ \E k \in DOMAIN tasks :
               /\ tasks[k].Status = TaskStatusDone
               /\ tasks[k].UserID = GetUserID(inv[i].mode)
               /\ tasks[k].TaskType = GetTaskType(inv[i].mode)

StoredTask(ts, taskID) == ts[CHOOSE k \in DOMAIN ts : ts[k].ID = taskID]

DetailsOf(ds, taskID) == {k \in DOMAIN ds : ds[k].TaskID = taskID}

(* C9: when the blacklist, behaviour and frequency checks have passed for a  *)
(* matched, pending, unexpired task and there is no device data, the attempt *)
(* creates exactly one detail (status Done, the flag of the event, reward 1) *)
(* and the stored progress grows by one, the task being Done exactly when    *)
(* the progress has reached the target.                                      *)
C9_MatchedAttemptCompletes ==
    [][\A i \in Procs :
          (inv[i].pc = "check_device" /\ Steps(i)
           /\ userDevices[CurTask(inv[i]).UserID] = {})
              => LET t == CurTask(inv[i])
                     new == StoredTask(tasks', t.ID)
                 IN  /\ Len(details') = Len(details) + 1
                     /\ details'[Len(details')].TaskID = t.ID
                     /\ details'[Len(details')].Status = TaskDetailStatusDone
                     /\ details'[Len(details')].UniqueFlag = GetUniqueFlag(inv[i].mode)
                     /\ details'[Len(details')].RewardValue = 1
                     /\ new.Progress = t.Progress + 1
                     /\ new.Status = TaskStatusDone <=> new.Progress >= new.Target]_vars

(* C10: an Execute of a check-in trigger that listed one task, a pending     *)
(* check-in task of target 1 with the condition "" or IS_TODAY(), for a user *)
(* who is not blacklisted and has no history, returns nil and leaves the     *)
(* task Done at progress 1 with exactly one detail.                          *)
C10_CheckinCompletesTask ==
    [][\A i \in Procs :
          (/\ inv[i].pc = "unlock" /\ inv'[i].pc = "done"
           /\ inv[i].mode.kind = "checkin"
           /\ inv[i].listed = 1 /\ Len(inv[i].validTasks) = 1
           /\ inv[i].validTasks[1].Target = 1
           /\ inv[i].validTasks[1].TaskCondExpr \in {"", ExprIsToday}
           /\ blacklist[GetUserID(inv[i].mode)] = NoReason)
              => LET stored == StoredTask(tasks, inv[i].validTasks[1].ID) IN
                 /\ inv'[i].result = NoError
                 /\ stored.Status = TaskStatusDone
                 /\ stored.Progress = 1
                 /\ Cardinality(DetailsOf(details, stored.ID)) = 1]_vars

UserOf(i) == GetUserID(inv[i].mode)

(* C11: the checks of the risk gate run in the order blacklist, behaviour,  *)
(* frequency, device: a check is entered only from the one before it, and    *)
(* only when that one has passed; after a failed check the attempt goes to   *)
(* AddToBlacklist or returns, never to a later check.                        *)
C11_ChecksInOrder ==
    [][\A i \in Procs :
          Steps(i) =>
              /\ inv'[i].pc = "check_blacklist"
                     => /\ inv[i].pc \in {"list", "check_device"}
                        /\ inv'[i].idx > inv[i].idx
              /\ inv'[i].pc = "check_behavior"
                     => /\ inv[i].pc = "check_blacklist"
                        /\ blacklist[UserOf(i)] = NoReason
              /\ inv'[i].pc = "check_frequency"
                     => /\ inv[i].pc = "check_behavior"
                        /\ CheckUserBehavior(UserOf(i)) = Ok
              /\ inv'[i].pc = "check_device"
                     => /\ inv[i].pc = "check_frequency"
                        /\ CheckTaskFrequency(UserOf(i), CurTask(inv[i]).ID) = Ok
              /\ inv'[i].pc = "add_blacklist"
                     => inv[i].pc \in {"check_behavior", "check_frequency", "check_device"}
              /\ inv[i].pc = "add_blacklist" => inv'[i].pc = "unlock"]_vars

(* with five or more behaviours on record the behaviour check has passed,    *)
(* the frequency check has failed, and the device check has not been run     *)
C11_Witness ==
    \E i \in Procs :
        /\ inv[i].pc = "add_blacklist"
        /\ inv[i].reason = "frequency_too_high"
        /\ Len(behaviors[UserOf(i)]) >= RegularityWindow
        /\ blacklist[UserOf(i)] = NoReason

GateKinds == {"behavior", "frequency", "device"}

(* C12: an invocation that returns the error of the behaviour, frequency or  *)
(* device check finds its user on the blacklist with a reason; a rejection   *)
(* by the blacklist check leaves the blacklist as it is.                     *)
C12_RejectionBlacklists ==
    /\ [](\A i \in Procs :
              (inv[i].pc \in {"unlock", "done"} /\ inv[i].result.kind \in GateKinds)
                  => blacklist[UserOf(i)] # NoReason)
    /\ [][\A i \in Procs :
             (Steps(i) /\ inv[i].pc = "check_blacklist") => blacklist' = blacklist]_vars

(* the behaviour check has rejected an attempt and the error is returned     *)
(* with the user blacklisted for it                                          *)
C12_Witness ==
    \E i \in Procs :
        /\ inv[i].pc = "unlock"
        /\ inv[i].result.kind = "behavior"
        /\ blacklist[UserOf(i)] = "behavior_anomaly"

RecentCompletions(userID) ==
    Cardinality({k \in DOMAIN completions[userID] :
                    completions[userID][k].Timestamp > now - SecondsPerMinute})

(* C13: while a user has more than 10 completions recorded in the last 60    *)
(* seconds, an attempt of that user on a matched pending task does not pass  *)
(* the behaviour check: its blacklist check rejects it or hands it to the    *)
(* behaviour check, which rejects it; the risk error is returned with the    *)
(* user blacklisted, and no step of the attempt creates a detail.            *)
C13_BurstRejected ==
    [][\A i \in Procs :
          (Steps(i) /\ inv[i].pc \in GatePcs
           /\ RecentCompletions(UserOf(i)) > MaxRecentBehaviors)
              => /\ details' = details
                 /\ inv[i].pc = "check_blacklist"
                        => \/ inv'[i].pc = "check_behavior"
                           \/ /\ inv'[i].pc = "unlock"
                              /\ "risk_check_failed" \in inv'[i].result.msg
                              /\ blacklist'[UserOf(i)] # NoReason
                 /\ inv[i].pc = "check_behavior" => inv'[i].pc = "add_blacklist"
                 /\ inv[i].pc = "add_blacklist"
                        => /\ inv'[i].pc = "unlock"
                           /\ "risk_check_failed" \in inv'[i].result.msg
                           /\ blacklist'[UserOf(i)] # NoReason]_vars

(* eleven completions within a minute, not evenly spaced: the trigger was    *)
(* rejected for the count alone                                              *)
C13_Witness ==
    \E i \in Procs :
        /\ inv[i].pc = "done"
        /\ "too many actions in one minute" \in inv[i].result.msg
        /\ "risk_check_failed" \in inv[i].result.msg
        /\ RecentCompletions(UserOf(i)) = MaxRecentBehaviors + 1
        /\ blacklist[UserOf(i)] = "behavior_anomaly"
        /\ details = <<>>

DetailsOfUser(ds, userID) == {k \in DOMAIN ds : ds[k].UserID = userID}

C15_RejectionAbortsBatch ==
    [][\A i \in Procs :
          Steps(i) =>
              /\ (\/ inv[i].pc = "check_blacklist" /\ blacklist[UserOf(i)] # NoReason
                  \/ inv[i].pc = "add_blacklist")
                     => /\ inv'[i].pc = "unlock"
                        /\ "risk_check_failed" \in inv'[i].result.msg
                        /\ inv'[i].idx = inv[i].idx
                        /\ details' = details
                        /\ tasks' = tasks
              /\ (inv[i].pc = "unlock" /\ "risk_check_failed" \in inv[i].result.msg)
                     => /\ inv'[i].pc = "done"
                        /\ inv'[i].result = inv[i].result
                        /\ details' = details
                        /\ tasks' = tasks]_vars

(* a batch of two valid tasks was rejected at its first task: the second was *)
(* not entered                                                               *)
C15_Witness ==
    \E i \in Procs :
        /\ inv[i].pc = "unlock"
        /\ Len(inv[i].validTasks) = 2
        /\ inv[i].idx = 1
        /\ "risk_check_failed" \in inv[i].result.msg

(* C16: an invocation that returns the evaluation error of one of its tasks  *)
(* has gone through every task of the batch.                                 *)
C16_EvalErrorSkipsOnlyThatTask ==
    \A i \in Procs :
        inv[i].pc = "unlock" /\ inv[i].result.kind = "evaluate"
            => inv[i].idx >= Len(inv[i].validTasks)

(* C17: Execute takes the error it returns for a risk error only when the    *)
(* risk gate produced it.                                                    *)
C17_RiskErrorsComeFromGate ==
    \A i \in Procs :
        inv[i].pc = "unlock" /\ isRiskCheckError(inv[i].result)
            => inv[i].result.kind \in GateKinds \cup {"blacklisted"}

C19_CalledInRegistrationOrder ==
    \A k \in DOMAIN notify.called : notify.called[k] = notify.registered[k]

Called(op) == lockApi' # lockApi /\ lockApi'.last.op = op

(* C22: a Lock on a held key returns an error in the step of the call and    *)
(* changes neither the lock table nor who holds what; a Lock on a free key   *)
(* returns a lockID, which the table then holds for the key, and changes no  *)
(* other key.                                                                *)
C22_LockFailsFast ==
    [][Called("Lock") =>
          LET call == lockApi'.last IN
          IF locks[call.key] # NoLock
          THEN /\ ~call.ok
               /\ locks' = locks
               /\ lockApi'.holder = lockApi.holder
               /\ lockApi'.tokens = lockApi.tokens
          ELSE /\ call.ok
               /\ call.lockID # NoLock
               /\ locks' = [locks EXCEPT ![call.key] = call.lockID]
               /\ lockApi'.tokens[call.caller][call.key] = call.lockID]_vars

(* a caller was refused a key that another caller holds *)
C22_Witness ==
    /\ lockApi.last.op = "Lock"
    /\ ~lockApi.last.ok
    /\ locks[lockApi.last.key] # NoLock
    /\ lockApi.holder[lockApi.last.key] \notin {0, lockApi.last.caller}

(* C23: an Unlock of a key that is free, or with a lockID that is not the    *)
(* one the table holds for the key, returns an error and leaves the table    *)
(* as it is; an Unlock with the lockID of the table frees the key and only   *)
(* it; and a key that is held becomes free in no other way.                  *)
C23_UnlockNeedsToken ==
    [][/\ Called("Unlock") =>
             LET call == lockApi'.last IN
             IF locks[call.key] = NoLock \/ locks[call.key] # call.lockID
             THEN ~call.ok /\ locks' = locks
             ELSE call.ok /\ locks' = [locks EXCEPT ![call.key] = NoLock]
       /\ \A k \in Keys :
             locks[k] # NoLock /\ locks'[k] = NoLock
                 => /\ lockApi'.last.op = "Unlock"
                    /\ lockApi'.last.key = k
                    /\ lockApi'.last.lockID = locks[k]
                    /\ lockApi'.last.ok]_vars

(* an Unlock with a wrong lockID was refused and the key is still held *)
C23_Witness ==
    /\ lockApi.last.op = "Unlock"
    /\ ~lockApi.last.ok
    /\ lockApi.last.lockID = WrongToken
    /\ locks[lockApi.last.key] # NoLock
    /\ lockApi.holder[lockApi.last.key] # 0

(* C24: an Unlock by a caller of a key that another caller holds returns an  *)
(* error and leaves the key with its holder.                                 *)
C24_StaleUnlockRefused ==
    [][Called("Unlock") =>
          LET call == lockApi'.last IN
          lockApi.holder[call.key] \notin {0, call.caller}
              => ~call.ok /\ locks' = locks]_vars

(* C25: an Execute that starts while no invocation in flight is for its user *)
(* is given the lock in the step of its call, whatever invocations of other  *)
(* users are in flight and whatever their task types.                        *)
C25_UsersDoNotBlockEachOther ==
    [][\A j \in Procs :
          (/\ inv[j].pc = "idle" /\ inv'[j].pc # "idle" /\ inv'[j].mode # NilMode
           /\ \A i \in Procs \ {j} :
                  InFlight(i) => UserOf(i) # GetUserID(inv'[j].mode))
              => /\ inv'[j].pc = "list"
                 /\ inv'[j].lockID # NoLock
                 /\ "acquire lock failed" \notin inv'[j].result.msg]_vars

(* the check-ins of two users are in flight at once, the second one having   *)
(* started while the first was at the risk gate                              *)
C25_Witness ==
    \E i, j \in Procs :
        /\ inv[i].pc \in GatePcs
        /\ inv[j].pc = "list"
        /\ UserOf(i) # UserOf(j)
        /\ GetTaskType(inv[i].mode) = GetTaskType(inv[j].mode)

(* C26: an Execute of an event without a task mode or without a user id ends *)
(* in the step of its call with a validation error, and that step changes    *)
(* no lock, task, detail, history or blacklist.                              *)
C26_InvalidEventRejected ==
    [][\A j \in Procs :
          (/\ inv[j].pc = "idle" /\ inv'[j].pc # "idle"
           /\ inv'[j].mode.UserID = NoUser)
              => /\ inv'[j].pc = "done"
                 /\ inv'[j].result.kind = "validation"
                 /\ locks' = locks
                 /\ UNCHANGED <<tasks, details, riskVars>>]_vars

(* C27: the step in which Execute is refused the lock ends the invocation    *)
(* with the error of the acquisition and changes nothing: not a task, a      *)
(* detail, a history, the blacklist or a lock, and the key stays with the    *)
(* lockID its holder was given.                                              *)
C27_LockFailureChangesNothing ==
    [][\A j \in Procs :
          (/\ inv[j].pc = "idle" /\ inv'[j].pc # "idle" /\ inv'[j].mode # NilMode
           /\ locks[KeyOf(inv'[j].mode)] # NoLock)
              => /\ inv'[j].pc = "done"
                 /\ inv'[j].result.kind = "lock"
                 /\ "acquire lock failed" \in inv'[j].result.msg
                 /\ locks' = locks
                 /\ UNCHANGED <<tasks, details, riskVars>>
                 /\ \E i \in Procs \ {j} :
                        /\ inv'[i] = inv[i]
                        /\ InFlight(i)
                        /\ locks'[inv[i].lockKey] = inv[i].lockID
                        /\ inv[i].lockKey = KeyOf(inv'[j].mode)]_vars

(* an invocation was refused the lock while tasks are stored, and the holder *)
(* is still in flight with its lockID                                        *)
C27_Witness ==
    \E i, j \in Procs :
        /\ i # j
        /\ inv[j].pc = "done"
        /\ inv[j].result.kind = "lock"
        /\ InFlight(i)
        /\ inv[i].lockKey = KeyOf(inv[j].mode)
        /\ locks[inv[i].lockKey] = inv[i].lockID
        /\ Len(tasks) > 0

(* C28: a user who is on the blacklist is on it after every step.            *)
C28_BlacklistOnlyGrows ==
    [][\A u \in Users : blacklist[u] # NoReason => blacklist'[u] # NoReason]_vars

(* a user was put on the blacklist, an AddToBlacklist or a trigger came      *)
(* after it, and the user is still on the list                               *)
C28_Witness ==
    /\ blacklist[1] = "manual"
    /\ \E i \in Procs :
           /\ inv[i].pc = "done"
           /\ inv[i].mode # NilMode
           /\ UserOf(i) = 1
           /\ inv[i].result.kind = "blacklisted"

EmptyExprAt(ts) == {k \in DOMAIN ts : ts[k].TaskCondExpr = ""}

(* C29: Evaluate of the empty expression is true without an error for the    *)
(* arguments of every event; and the loop of Execute does not pass a valid   *)
(* task without a condition: it enters the risk check for that task or for   *)
(* a task before it.                                                         *)
C29_EmptyExpressionMatches ==
    /\ [](\A mode \in Events \cup NoUserEvents :
              Evaluate("", GetExpressionArguments(mode)) = Val(TRUE))
    /\ [][\A i \in Procs :
             (/\ inv[i].pc = "list" /\ Steps(i)
              /\ EmptyExprAt(inv'[i].validTasks) # {})
                 => /\ inv'[i].pc = "check_blacklist"
                    /\ \A k \in EmptyExprAt(inv'[i].validTasks) : inv'[i].idx <= k]_vars

(* a publish event has matched a task without a condition where the event    *)
(* does not meet the publish condition of the other task of the user         *)
C29_Witness ==
    \E i \in Procs :
        /\ inv[i].pc = "check_blacklist"
        /\ inv[i].mode.kind = "publish"
        /\ CurTask(inv[i]).TaskCondExpr = ""
        /\ inv[i].idx = 2
        /\ ~Evaluate(ExprPublish, GetExpressionArguments(inv[i].mode)).val

(* C30: the device check of performRiskCheck, which supplies no detail and   *)
(* so no device id, passes: the step returns no device error, does not       *)
(* panic, blacklists nobody, and the attempt goes on to create its detail.   *)
C30_DeviceCheckPassesWithoutDevice ==
    [][\A i \in Procs :
          (inv[i].pc = "check_device" /\ Steps(i))
              => /\ inv'[i].result.kind \notin {"panic", "device"}
                 /\ inv'[i].pc # "add_blacklist"
                 /\ blacklist' = blacklist
                 /\ ExistsByUniqueFlag(details', GetUniqueFlag(inv[i].mode))]_vars

(* ---- The frequency rule over long histories ---- *)

(* n completions of one task by user 1, recorded from base on at growing     *)
(* distances, as RecordTaskCompletion appends them                           *)
Block(n, taskID, base) ==
    [k \in 1 .. n |-> [UserID |-> 1, TaskID |-> taskID, Timestamp |-> base + k * k]]

OldCounts == {0, 30}
DayCounts == {0, 11, 20, 21, 49, 90}
HourSameCounts == {0, 9, 10}
HourOtherCounts == {0, 1, 9}
FreqNow == 3 * SecondsPerDay

(* a history of user 1: completions older than a day, of the last day, and   *)
(* of the last hour for the first task and for another task                  *)
History(nOld, nDay, nSame, nOther) ==
    Block(nOld, TaskIdGenBase + 2, 0)
        \o Block(nDay, TaskIdGenBase + 2, FreqNow - 20 * SecondsPerHour)
        \o Block(nSame, TaskIdGenBase + 1, FreqNow - 55 * SecondsPerMinute)
        \o Block(nOther, TaskIdGenBase + 2, FreqNow - 40 * SecondsPerMinute)

(* the state after user 1's check-in task was created and the history was    *)
(* recorded on the risk service over three days                              *)
InitFreq ==
    /\ now = FreqNow
    /\ ticks = 0
    /\ \E input \in RiskInputs :
          tasks = TaskCreate(<<>>, [ID |-> 0, ActivityID |-> input.ActivityID,
                                    TaskID |-> input.TaskID, UserID |-> input.UserID,
                                    TaskType |-> input.TaskType,
                                    Status |-> TaskStatusPending, Progress |-> 0,
                                    Target |-> input.Target,
                                    TaskCondExpr |-> input.TaskCondExpr,
                                    CreatedAt |-> 0])
    /\ details = <<>>
    /\ locks = [k \in Keys |-> NoLock]
    /\ blacklist = [u \in Users |-> NoReason]
    /\ \E nOld \in OldCounts, nDay \in DayCounts,
          nSame \in HourSameCounts, nOther \in HourOtherCounts :
          /\ completions = [u \in Users |->
                               IF u = 1 THEN History(nOld, nDay, nSame, nOther)
                               ELSE <<>>]
          /\ behaviors = completions
          /\ recorded = 0
    /\ userDevices = [u \in Users |-> {}]
    /\ deviceUsers = [d \in Devices |-> {}]
    /\ inv = [i \in Procs |-> IdleInv]
    /\ observers = NoObservers
    /\ regOrder = <<>>
    /\ lastReg = NoObserver
    /\ lockApi = NoLockCalls
    /\ notify = NotifyIdle
    /\ created = NoOutput

NextFreq ==
    \E i \in Procs :
        \/ \E mode \in RiskEvents : ExecuteLock(i, mode)
        \/ ExecuteList(i)
        \/ Gate(i)
        \/ AddBlacklist(i)
        \/ ExecuteUnlock(i)

SpecFreq == InitFreq /\ [][NextFreq]_vars

(* the completions of a history recorded less than span seconds ago *)
Trailing(cs, span) == {k \in DOMAIN cs : now - cs[k].Timestamp < span}

(* the frequency rule: ten of the task in the trailing hour, a hundred       *)
(* completions in the trailing day, or over twenty in the trailing day of a  *)
(* user with under fifty completions in all                                  *)
FrequencyRuleBroken(cs, taskID) ==
    \/ Cardinality({k \in Trailing(cs, SecondsPerHour) : cs[k].TaskID = taskID}) >= 10
    \/ Cardinality(Trailing(cs, SecondsPerDay)) >= 100
    \/ Len(cs) < 50 /\ Cardinality(Trailing(cs, SecondsPerDay)) > 20

(* C31: the frequency check rejects an attempt exactly when the task has     *)
(* ten or more completions in the trailing hour, or the user has a hundred   *)
(* or more in the trailing 24 hours, or the user has under fifty completions *)
(* in all and over twenty in the trailing 24 hours; otherwise, an empty      *)
(* history included, it passes on to the device check.                       *)
C31_FrequencyRuleExact ==
    [][\A i \in Procs :
          (inv[i].pc = "check_frequency" /\ Steps(i))
              => LET broken == FrequencyRuleBroken(completions[UserOf(i)],
                                                   CurTask(inv[i]).ID)
                 IN  /\ broken => /\ inv'[i].pc = "add_blacklist"
                                  /\ inv'[i].riskErr.kind = "frequency"
                     /\ ~broken => inv'[i].pc = "check_device"]_vars

(* an attempt was rejected for a hundred completions within 24 hours *)
C31_Witness ==
    \E i \in Procs : /\ inv[i].pc = "add_blacklist"
                     /\ inv[i].riskErr = ErrTooManyPerDay
                     /\ Len(completions[1]) >= 100

(* the error Execute is to return for the errors f of its failed tasks: the  *)
(* first one taken for a risk error, else the last one, else none            *)
Aggregate(f) ==
    LET risky == {k \in DOMAIN f : isRiskCheckError(f[k])} IN
    IF f = <<>> THEN NoError
    ELSE IF risky # {} THEN f[CHOOSE k \in risky : \A m \in risky : k <= m]
    ELSE f[Len(f)]

BatchInputs ==
    { TaskInput(1, TaskTypePublishTimes, 1, ExprPublish),
      TaskInput(1, TaskTypePublishTimes, 1, ExprNumber),
      TaskInput(1, TaskTypePublishTimes, 1, ExprKeyword) }

(* Publish events over batches of two tasks, of a user who may be blacklisted *)
NextBatch ==
    \/ \E i \in Procs :
          \/ \E mode \in PublishEvents : ExecuteLock(i, mode)
          \/ ExecuteList(i)
          \/ Gate(i)
          \/ ExecuteUnlock(i)
    \/ \E input \in BatchInputs : CreateTask(input)
    \/ \E reason \in BlacklistReasons : ServiceAddToBlacklist(1, reason)

SpecBatch == Init /\ [][NextBatch]_vars

(* C32: an invocation that returns from its batch returns the result of its  *)
(* failed tasks: success exactly when no task failed, else the first error   *)
(* classified as a risk error, else the error of the last failed task, also  *)
(* when a task after that one did not fail.                                  *)
C32_ResultAggregatesFailures ==
    \A i \in Procs :
        inv[i].pc = "unlock" /\ inv[i].result # ErrPanic
            => inv[i].result = Aggregate(inv[i].failed)

(* the first of two tasks failed to evaluate, the second was processed       *)
(* without an error, and the invocation returns the error of the first       *)
C32_Witness ==
    \E i \in Procs :
        /\ inv[i].pc = "unlock"
        /\ Len(inv[i].validTasks) = 2
        /\ inv[i].idx = 3
        /\ inv[i].validTasks[1].TaskCondExpr = ExprNumber
        /\ inv[i].validTasks[2].TaskCondExpr = ExprPublish
        /\ Len(inv[i].failed) = 1
        /\ inv[i].result = inv[i].failed[1]

(* the topics of a publish event share an id with the required ones, its     *)
(* like count is at least ten and it is audited                              *)
PublishMatches(mode) ==
    /\ Range(mode.TopicIDs) \cap {1001, 1002} # {}
    /\ mode.LikeCount >= 10
    /\ mode.IsAudited

(* C33: a publish event meets the condition WITH_ANY_TOPIC && LIKE_COUNT_GTE *)
(* && IS_AUDITED of a task exactly when its topics share an id with 1001,    *)
(* 1002, its like count is at least 10 and it is audited; and the attempt of *)
(* a clean user with such an event ends with Execute returning no error.     *)
C33_MatchingPublishSucceeds ==
    [][\A i \in Procs :
          /\ (/\ inv[i].pc = "list" /\ Steps(i)
              /\ inv[i].mode \in PublishEvents
              /\ Len(inv'[i].validTasks) > 0
              /\ inv'[i].validTasks[1].TaskCondExpr = ExprPublish)
                 => (inv'[i].pc = "check_blacklist" <=> PublishMatches(inv[i].mode))
          /\ (/\ inv[i].pc = "check_device" /\ Steps(i)
              /\ inv[i].mode \in PublishEvents
              /\ CurTask(inv[i]).TaskCondExpr = ExprPublish
              /\ PublishMatches(inv[i].mode)
              /\ completions[UserOf(i)] = <<>>
              /\ userDevices[UserOf(i)] = {})
                 => /\ inv'[i].pc = "unlock"
                    /\ inv'[i].result = NoError]_vars

Recorded(userID, n) ==
    [k \in 1 .. n |-> [UserID |-> userID, TaskID |-> TaskIdGenBase + 1, Timestamp |-> k]]

HistoryLens == {0, 1, HistoryCap - 1, HistoryCap}

(* the risk service after each user has completed tasks for a while *)
InitRecord ==
    /\ now = HistoryCap + 1
    /\ ticks = 0
    /\ tasks = <<>>
    /\ details = <<>>
    /\ locks = [k \in Keys |-> NoLock]
    /\ blacklist = [u \in Users |-> NoReason]
    /\ \E lens \in [Users -> HistoryLens] :
          completions = [u \in Users |-> Recorded(u, lens[u])]
    /\ behaviors = completions
    /\ recorded = 0
    /\ userDevices = [u \in Users |-> {}]
    /\ deviceUsers = [d \in Devices |-> {}]
    /\ inv = [i \in Procs |-> IdleInv]
    /\ observers = NoObservers
    /\ regOrder = <<>>
    /\ lastReg = NoObserver
    /\ lockApi = NoLockCalls
    /\ notify = NotifyIdle
    /\ created = NoOutput

NextRecord ==
    \/ \E u \in Users : RecordTaskCompletion(u, TaskIdGenBase + 1)
    \/ Tick(1)

SpecRecord == InitRecord /\ [][NextRecord]_vars

(* the history new is the history old with one record of the user at the     *)
(* present time added, cut to its most recent 1000 records, in their order   *)
OneMoreRecord(old, new, userID) ==
    LET n == Len(new) IN
    /\ n = IF Len(old) < 1000 THEN Len(old) + 1 ELSE 1000
    /\ new[n].UserID = userID
    /\ new[n].Timestamp = now
    /\ \A k \in 1 .. (n - 1) : new[k] = old[Len(old) - (n - 1) + k]

(* C36: the completion and behaviour histories of every user hold at most    *)
(* 1000 records; a call of RecordTaskCompletion for a user leaves in each of *)
(* that user's histories the most recent records, the new one last, in their *)
(* order, and leaves the histories of every other user as they were.         *)
C36_HistoriesCapped ==
    [][/\ \A u \in Users : /\ Len(completions'[u]) <= 1000
                           /\ Len(behaviors'[u]) <= 1000
       /\ recorded' # recorded
             => \E u \in Users :
                   /\ OneMoreRecord(completions[u], completions'[u], u)
                   /\ OneMoreRecord(behaviors[u], behaviors'[u], u)
                   /\ \A v \in Users \ {u} : /\ completions'[v] = completions[v]
                                             /\ behaviors'[v] = behaviors[v]]_vars

(* a call has pushed the oldest record out of the full history of user 1,    *)
(* beside the shorter history of user 2                                      *)
C36_Witness ==
    /\ recorded > 0
    /\ Len(completions[1]) = HistoryCap
    /\ completions[1][1].Timestamp > 1
    /\ completions[1][HistoryCap].Timestamp > HistoryCap
    /\ Len(completions[2]) = 1

(* the stored tasks an invocation lists: those of the user and type of its   *)
(* event                                                                     *)
ListedBy(i) ==
    {k \in DOMAIN tasks : /\ tasks[k].UserID = GetUserID(inv[i].mode)
                          /\ tasks[k].TaskType = GetTaskType(inv[i].mode)}

(* the task is older than 30 days *)
OlderThan30Days(t) == now - t.CreatedAt > 30 * 86400

(* C37: a task that is older than 30 days when an invocation lists its tasks *)
(* is skipped silently: it is no entry of the tasks the invocation goes      *)
(* through, so it is not evaluated and adds no error; every other listed     *)
(* task that is not Done is gone through; a list of expired tasks only ends  *)
(* in success; and no step of the invocation writes the skipped task or      *)
(* creates a detail for it.                                                  *)
C37_ExpiredTaskSkipped ==
    [][\A i \in Procs :
          /\ (inv[i].pc = "list" /\ Steps(i))
                => /\ \A k \in ListedBy(i) :
                         tasks[k] \in Range(inv'[i].validTasks)
                             <=> /\ ~OlderThan30Days(tasks[k])
                                 /\ tasks[k].Status # TaskStatusDone
                   /\ (\A k \in ListedBy(i) : OlderThan30Days(tasks[k]))
                         => /\ inv'[i].pc = "unlock"
                            /\ inv'[i].result = NoError
                            /\ inv'[i].failed = <<>>
          /\ Steps(i)
                => \A k \in DOMAIN tasks :
                       (\A n \in DOMAIN inv[i].validTasks :
                            inv[i].validTasks[n].ID # tasks[k].ID)
                           => /\ tasks'[k] = tasks[k]
                              /\ \A d \in DOMAIN details' \ DOMAIN details :
                                     details'[d].TaskID # tasks[k].ID]_vars

(* an invocation listed an expired pending task and a fresh one and is in    *)
(* the risk gate of the fresh one                                            *)
C37_Witness ==
    \E i \in Procs :
        /\ inv[i].pc \in GatePcs
        /\ inv[i].listed = 2
        /\ Len(inv[i].validTasks) = 1
        /\ ~OlderThan30Days(CurTask(inv[i]))
        /\ \E k \in ListedBy(i) : /\ OlderThan30Days(tasks[k])
                                  /\ tasks[k].Status = TaskStatusPending

(* every task the invocation lists is Done, expired, or has a condition that *)
(* the event does not meet                                                   *)
NoTaskMatches(i) ==
    \A k \in ListedBy(i) :
        \/ tasks[k].Status = TaskStatusDone
        \/ OlderThan30Days(tasks[k])
        \/ LET r == Evaluate(tasks[k].TaskCondExpr, GetExpressionArguments(inv[i].mode))
           IN  r.err = NoError /\ ~r.val

StoresUnchanged ==
    UNCHANGED <<tasks, details, blacklist, completions, behaviors, userDevices,
                deviceUsers, observers, regOrder>>

(* C38: a trigger for which no task matches returns success and changes      *)
(* nothing but the lock: taking the lock writes the lock of its key only,    *)
(* listing and going through the tasks writes nothing and ends in success,   *)
(* and the return releases the lock and writes nothing else.                 *)
C38_NoMatchChangesNothing ==
    [][\A i \in Procs :
          /\ (inv[i].pc = "idle" /\ Steps(i))
                => /\ StoresUnchanged
                   /\ \A k \in Keys \ {KeyOf(inv'[i].mode)} : locks'[k] = locks[k]
          /\ (inv[i].pc = "list" /\ Steps(i) /\ NoTaskMatches(i))
                => /\ StoresUnchanged
                   /\ locks' = locks
                   /\ inv'[i].pc = "unlock"
                   /\ inv'[i].result = NoError
          /\ (inv[i].pc = "unlock" /\ Steps(i))
                => /\ StoresUnchanged
                   /\ locks' = [locks EXCEPT ![inv[i].lockKey] = NoLock]
                   /\ inv'[i].pc = "done"
                   /\ inv'[i].result = inv[i].result]_vars

(* a publish event on none of the required topics went through a pending     *)
(* task and the invocation is returning success                              *)
C38_Witness ==
    \E i \in Procs :
        /\ inv[i].pc = "unlock"
        /\ inv[i].result = NoError
        /\ Len(inv[i].validTasks) > 0
        /\ inv[i].idx = Len(inv[i].validTasks) + 1
        /\ inv[i].failed = <<>>
        /\ ~PublishMatches(inv[i].mode)
        /\ details = <<>>

(* ---- Two task types of one user ---- *)

RaceNow == 100

(* ten completions of the check-in task in the last minute, at growing       *)
(* distances: the behaviour check passes, the frequency check of the         *)
(* check-in task does not                                                    *)
RaceHistory ==
    [k \in 1 .. MaxTaskPerHour |->
        [UserID |-> 1, TaskID |-> TaskIdGenBase + 1,
         Timestamp |-> RaceNow - SecondsPerMinute + (k * (k + 1)) \div 2]]

RaceInputs ==
    << TaskInput(1, TaskTypeCheckin, 1, ExprIsToday),
       TaskInput(1, TaskTypePublishTimes, 1, ExprPublish) >>

(* user 1 has a check-in task and a publish task, and the risk service has   *)
(* the ten completions                                                       *)
InitRace ==
    /\ now = RaceNow
    /\ ticks = 0
    /\ tasks = [k \in DOMAIN RaceInputs |->
                   [ID |-> TaskIdGenBase + k, ActivityID |-> RaceInputs[k].ActivityID,
                    TaskID |-> RaceInputs[k].TaskID, UserID |-> RaceInputs[k].UserID,
                    TaskType |-> RaceInputs[k].TaskType,
                    Status |-> TaskStatusPending, Progress |-> 0,
                    Target |-> RaceInputs[k].Target,
                    TaskCondExpr |-> RaceInputs[k].TaskCondExpr,
                    CreatedAt |-> 0]]
    /\ details = <<>>
    /\ locks = [k \in Keys |-> NoLock]
    /\ blacklist = [u \in Users |-> NoReason]
    /\ completions = [u \in Users |-> IF u = 1 THEN RaceHistory ELSE <<>>]
    /\ behaviors = completions
    /\ recorded = 0
    /\ userDevices = [u \in Users |-> {}]
    /\ deviceUsers = [d \in Devices |-> {}]
    /\ inv = [i \in Procs |-> IdleInv]
    /\ observers = NoObservers
    /\ regOrder = <<>>
    /\ lastReg = NoObserver
    /\ lockApi = NoLockCalls
    /\ notify = NotifyIdle
    /\ created = NoOutput

NextRace ==
    \/ \E i \in Procs :
          \/ \E mode \in MatchEvents : ExecuteLock(i, mode)
          \/ ExecuteList(i)
          \/ Gate(i)
          \/ AddBlacklist(i)
          \/ ExecuteUnlock(i)
    \/ Tick(1)

SpecRace == InitRace /\ [][NextRace]_vars

ValidCreateInputs ==
    { TaskInput(1, TaskTypePublishTimes, MaxTarget, ExprPublish),
      TaskInput(2, TaskTypeCheckin, 1, ExprIsToday),
      TaskInput(1, TaskTypeShareTimes, 1, ExprIsToday),
      TaskInput(1, TaskTypeLikeTimes, 1, ExprIsToday),
      TaskInput(2, TaskTypeCommentTimes, 1, ExprIsToday) }

InvalidCreateInputs ==
    { [TaskInput(1, TaskTypeCheckin, 1, ExprIsToday) EXCEPT !.ActivityID = 0],
      [TaskInput(1, TaskTypeCheckin, 1, ExprIsToday) EXCEPT !.TaskID = 0],
      TaskInput(NoUser, TaskTypeCheckin, 1, ExprIsToday),
      TaskInput(1, TaskTypeCheckin, 0, ExprIsToday),
      TaskInput(1, TaskTypeCheckin, -1, ExprIsToday),
      TaskInput(1, "unknown", 1, ExprIsToday),
      TaskInput(1, TaskTypeCheckin, 1, "") }

NextCreate ==
    \/ \E input \in ValidCreateInputs \cup InvalidCreateInputs : CreateTask(input)
    \/ Tick(1)

SpecCreate == Init /\ [][NextCreate]_vars

(* C40: CreateTaskUseCase.Execute stores a task only with a positive         *)
(* activity id, task id, user id and target, one of the five task types and  *)
(* a condition; the task it stores is Pending at progress 0 under an id that *)
(* no other stored task has, the tasks stored before stay as they are, and   *)
(* the task is returned without an error; a call that returns an error       *)
(* returns no task and leaves the store as it was, and a call that returns   *)
(* no error has stored its task.                                             *)
C40_CreateValidatesInput ==
    [][/\ tasks' # tasks
           => LET n == Len(tasks')
                  t == tasks'[n]
              IN  /\ n = Len(tasks) + 1
                  /\ \A k \in DOMAIN tasks : tasks'[k] = tasks[k] /\ tasks[k].ID # t.ID
                  /\ t.ActivityID > 0 /\ t.TaskID > 0 /\ t.UserID > 0 /\ t.Target > 0
                  /\ t.TaskType \in {"publish_times", "share_times", "like_times",
                                     "comment_times", "checkin"}
                  /\ t.TaskCondExpr # ""
                  /\ t.Status = TaskStatusPending
                  /\ t.Progress = 0
                  /\ created' = [task |-> <<t>>, err |-> NoError]
       /\ created' # created
           => /\ created'.err = NoError <=> tasks' # tasks
              /\ created'.err # NoError => created'.task = Nil]_vars

(* a second task was stored after the first and returned, Pending at         *)
(* progress 0, under an id of its own                                        *)
C40_Witness ==
    /\ Len(tasks) = 2
    /\ tasks[1].ID # tasks[2].ID
    /\ created = [task |-> <<tasks[2]>>, err |-> NoError]
    /\ tasks[2].Status = TaskStatusPending
    /\ tasks[2].Progress = 0

====
